---- MODULE Spec2Model ----
(***************************************************************************)
(* Klimper (ESP32 I2S synthesizer): the interrupt-to-worker audio          *)
(* pipeline (driver/audiohw.c, main.c), the voice manager (synth.c), the   *)
(* ADSR envelope (dsp/adsr.c), and the sequencer with the control-surface  *)
(* callbacks (sequencer.c, main.c).                                        *)
(*                                                                         *)
(* Floats are fixed-point integers: a scratch sample s stands for          *)
(* s / SampleScale, an envelope value v for v / EnvScale, a velocity for   *)
(* v / VelScale.                                                           *)
(***************************************************************************)
EXTENDS Integers, Sequences, FiniteSets, TLC

(***************************************************************************)
(* Bounds of the model and scaled program constants                        *)
(***************************************************************************)
\* interrupts fired in one behaviour
MaxInterrupts == 2
\* samples (two channels interleaved) rendered per sub-block: one stereo frame
CONFIG_AUDIO_N_SAMPLES_CYCLE == 2
\* length of the float scratch buffer dsp_buffer: two sub-blocks
CONFIG_AUDIO_N_SAMPLES_BUFFER == 4
\* the I2S channel has two DMA buffers (dma_desc_num = 2)
DmaDescNum == 2
\* the notification value the ISR sends: the address of the static audiohw_buffer
BufferAddr == 1
\* 1.0f as a fixed-point scratch sample
SampleScale == 2
\* full scale of the 16-bit PCM output
PcmFullScale == 32767

Min(a, b) == IF a < b THEN a ELSE b
Max(a, b) == IF a > b THEN a ELSE b
Abs(a) == IF a < 0 THEN -a ELSE a

\* the sizes event->size takes: below, at and above the scratch length
\* (the driver reports bytes, i.e. twice the number of 16-bit samples)
EventSizes == {CONFIG_AUDIO_N_SAMPLES_BUFFER - 1, CONFIG_AUDIO_N_SAMPLES_BUFFER,
               2 * CONFIG_AUDIO_N_SAMPLES_BUFFER}
\* the values one mixed scratch sample takes: below -1.0, inside, above 1.0
MixValues == {-(SampleScale + 1), 1, SampleScale + 1}

VARIABLES
    \* ---- driver/audiohw.c
    audiohw_buffer,     \* static audiohw_buffer_t {size, data}: the shared descriptor
    desc_irq,           \* history: which interrupt wrote each field of audiohw_buffer
    isr_pc,             \* position of i2s_isr_on_sent: "idle", "store_size", "notify"
    isr_event,          \* the event {dma_buf, size} of the running interrupt
    isr_count,          \* history: interrupts fired
    notify_value,       \* ulNotifiedValue of the DSP task
    notify_total,       \* history: notifications sent
    notify_dropped,     \* history: notifications overwritten before being taken
    unconsumed,         \* history: notifications sent since the last take
    \* ---- main.c, dsp_task
    dsp_pc,             \* position of dsp_task: "take", "copy", "render"
    tx_buffer,          \* local copy of the descriptor
    tx_irq,             \* history: which interrupt each copied field stems from
    tx_copied,          \* fields of the descriptor already copied
    dsp_buffer,         \* static float dsp_buffer[CONFIG_AUDIO_N_SAMPLES_BUFFER]
    pcm_out,            \* the PCM samples the last render cycle wrote to tx_buffer.data
    render_count,       \* history: render cycles started
    taken_k,            \* history: notifications that were pending at the last take
    notified_irq,       \* history: the interrupt that sent the latest notification
    taken_irq,          \* history: the latest interrupt notified when the worker took
    rendered,           \* history: the interrupt of the descriptor each cycle used
    overrun             \* history: an interrupt fired while the worker was not waiting

pipeVars == <<audiohw_buffer, desc_irq, isr_pc, isr_event, isr_count, notify_value,
              notify_total, notify_dropped, unconsumed, dsp_pc, tx_buffer, tx_irq,
              tx_copied, dsp_buffer, pcm_out, render_count, taken_k, notified_irq,
              taken_irq, rendered, overrun>>

\* synth.c: the voices, and the history of the calls made on them
VARIABLES
    voices,             \* synth->state.voices
    pan_init,           \* pan.c:25, static bool init
    heap_allocs,        \* history: malloc calls made by the last operation
    last_op,            \* history: the last call made on the synthesizer
    pre_voices,         \* history: the voices before that call
    on_hist,            \* history: the voice each note_on of the opening run took
    owner,              \* history: per note, the voice its last note_on selected
    synth_ops           \* history: the number of calls made so far

synthVars == <<voices, pan_init, heap_allocs, last_op, pre_voices, on_hist, owner,
               synth_ops>>

\* the history variables of the synthesizer that the worker's calls leave alone
synthHistory == <<pan_init, last_op, pre_voices, on_hist, owner, synth_ops>>

\* sequencer.c and ui/ui.c: the sequencer, the worker's and the control surface's position
VARIABLES
    sequencer,          \* sequencer_pimpl_t: bpm, running, durations, pause_remaining, notes_playing
    seq_pc,             \* where the worker is in its render cycle
    sub_block,          \* main.c:181, the sub-block the worker is rendering
    pause_reg,          \* the worker's copy of pause_remaining between load and store
    render_cycles,      \* history: render cycles begun
    ui_pc,              \* where the control-surface task is
    ui_bpm,             \* the argument of the sequencer_set_bpm call in progress
    ui_events,          \* history: button events handled
    ctx,                \* history: the execution context that took the last step
    ui_hist             \* history: the last button event, and whether the limits changed the
                        \* value when the parameter screen was last drawn

controlVars == <<sequencer, seq_pc, sub_block, pause_reg, render_cycles, ui_pc, ui_bpm,
                 ui_events, ctx, ui_hist>>

\* the end-to-end run of one note: note_on, rendering, note_off, rendering
VARIABLES
    e2e                 \* history: the note, its voice, blocks held, frames since note_off

e2eVars == <<e2e>>

\* dsp/adsr.c: one envelope generator on its own
VARIABLES
    adsr_env,           \* dsp_adsr_t
    adsr_h              \* history: configuration, ticks made, value and status before the last call

adsrVars == <<adsr_env, adsr_h>>

\* dsp/wavetable.c: one wavetable on its own
VARIABLES
    wt                  \* the table, and history: the last index read and the value returned

wtVars == <<wt>>

\* sequencer.c: one sequencer on its own
VARIABLES
    sq                  \* sequencer_pimpl_t, and history: the last call and what it issued

sqVars == <<sq>>

\* ---- ui/ui.c on its own: the event queue and the screens
VARIABLES
    ui                  \* event_queue, the screen shown, and history: the last event handled
                        \* and the calls made while it was handled

uiVars == <<ui>>

\* the variables of the unit checks, which the program's tasks leave alone
unitVars == <<e2eVars, adsrVars, wtVars, sqVars, uiVars>>

(***************************************************************************)
(* main.c: quantisation of one scratch sample                              *)
(***************************************************************************)
\* roundf(n / d) for d > 0: to nearest, halves away from zero
RoundDiv(n, d) == IF n >= 0 THEN (2 * n + d) \div (2 * d)
                            ELSE -((2 * (-n) + d) \div (2 * d))

\* mutant: the lower clamp is missing
ClampUpperOnly(sample) == IF sample > SampleScale THEN SampleScale ELSE sample

\* main.c:192-193
ClampSample(sample) ==
    IF sample < -SampleScale THEN -SampleScale
    ELSE IF sample > SampleScale THEN SampleScale
    ELSE sample

\* (int16_t) of an integral float: the value when it fits; outside the range the
\* conversion is undefined, and a build either saturates or wraps
CastModes == {"saturate", "wrap"}
Int16Cast(mode, x) ==
    IF x >= -32768 /\ x <= 32767 THEN x
    ELSE IF mode = "saturate" THEN (IF x > 0 THEN 32767 ELSE -32768)
    ELSE ((x + 32768) % 65536) - 32768

\* main.c:190-195: the value tx_buffer.data[i] receives for dsp_buffer[i] = sample
Quantize(mode, sample) ==
    Int16Cast(mode, RoundDiv(PcmFullScale * ClampSample(sample), SampleScale))

(***************************************************************************)
(* driver/audiohw.c: i2s_isr_on_sent                                       *)
(***************************************************************************)
\* mutant: the notification counts (eIncrement) instead of overwriting
NotifyIncrement(old, value) == old + 1

\* xTaskNotifyFromISR(..., eSetValueWithOverwrite): the new value replaces the old
NotifyFromISR(old, value) == value

\* the interrupt fires; audiohw.c:90 stores the pointer
IsrStoreData ==
    /\ isr_pc = "idle"
    /\ isr_count < MaxInterrupts
    /\ \E sz \in EventSizes :
          isr_event' = [dma_buf |-> (isr_count % DmaDescNum) + 1, size |-> sz]
    /\ isr_count' = isr_count + 1
    /\ audiohw_buffer' = [audiohw_buffer EXCEPT !.data = isr_event'.dma_buf]
    /\ desc_irq' = [desc_irq EXCEPT !.data = isr_count']
    /\ overrun' = (overrun \/ dsp_pc # "take" \/ notify_value # 0)
    /\ isr_pc' = "store_size"
    /\ UNCHANGED <<notify_value, notify_total, notify_dropped, unconsumed, dsp_pc,
                   tx_buffer, tx_irq, tx_copied, dsp_buffer, pcm_out, render_count,
                   taken_k, notified_irq, taken_irq, rendered>>
    /\ UNCHANGED <<synthVars, controlVars, unitVars>>

\* audiohw.c:91 stores the size
IsrStoreSize ==
    /\ isr_pc = "store_size"
    /\ audiohw_buffer' = [audiohw_buffer EXCEPT !.size = isr_event.size]
    /\ desc_irq' = [desc_irq EXCEPT !.size = isr_count]
    /\ isr_pc' = "notify"
    /\ UNCHANGED <<isr_event, isr_count, notify_value, notify_total, notify_dropped,
                   unconsumed, dsp_pc, tx_buffer, tx_irq, tx_copied, dsp_buffer,
                   pcm_out, render_count, taken_k, notified_irq, taken_irq, rendered,
                   overrun>>
    /\ UNCHANGED <<synthVars, controlVars, unitVars>>

\* audiohw.c:95-104 notifies the DSP task and returns
IsrNotify ==
    /\ isr_pc = "notify"
    /\ notify_value' = NotifyFromISR(notify_value, BufferAddr)
    /\ notify_total' = notify_total + 1
    /\ notify_dropped' = notify_dropped + (IF notify_value # 0 THEN 1 ELSE 0)
    /\ unconsumed' = unconsumed + 1
    /\ notified_irq' = isr_count
    /\ isr_pc' = "idle"
    /\ UNCHANGED <<audiohw_buffer, desc_irq, isr_event, isr_count, dsp_pc, tx_buffer,
                   tx_irq, tx_copied, dsp_buffer, pcm_out, render_count, taken_k,
                   taken_irq, rendered, overrun>>
    /\ UNCHANGED <<synthVars, controlVars, unitVars>>

(***************************************************************************)
(* main.c: dsp_task                                                        *)
(***************************************************************************)
\* ulTaskNotifyTake(pdTRUE, ...): the value is cleared when the call returns
NotifyTakeExit(value) == 0

\* main.c:175, the call: blocks while the value is zero, returns it and clears it
DspTake ==
    /\ dsp_pc = "take"
    /\ notify_value # 0
    /\ notify_value' = NotifyTakeExit(notify_value)
    /\ render_count' = render_count + 1
    /\ taken_k' = unconsumed
    /\ taken_irq' = notified_irq
    /\ unconsumed' = 0
    /\ tx_copied' = {}
    /\ dsp_pc' = "copy"
    /\ UNCHANGED <<audiohw_buffer, desc_irq, isr_pc, isr_event, isr_count, notify_total,
                   notify_dropped, tx_buffer, tx_irq, dsp_buffer, pcm_out, notified_irq,
                   rendered, overrun>>
    /\ UNCHANGED <<synthVars, controlVars, unitVars>>

\* main.c:175, the dereference: the struct is copied field by field, in either order
DspCopy ==
    /\ dsp_pc = "copy"
    /\ \E f \in {"size", "data"} \ tx_copied :
          /\ tx_buffer' = [tx_buffer EXCEPT ![f] = audiohw_buffer[f]]
          /\ tx_irq' = [tx_irq EXCEPT ![f] = desc_irq[f]]
          /\ tx_copied' = tx_copied \cup {f}
          /\ dsp_pc' = IF tx_copied' = {"size", "data"} THEN "render" ELSE "copy"
          /\ rendered' = IF tx_copied' = {"size", "data"}
                         THEN Append(rendered, tx_irq'.data) ELSE rendered
    /\ UNCHANGED <<audiohw_buffer, desc_irq, isr_pc, isr_event, isr_count, notify_value,
                   notify_total, notify_dropped, unconsumed, dsp_buffer, pcm_out,
                   render_count, taken_k, notified_irq, taken_irq, overrun>>
    /\ UNCHANGED <<synthVars, controlVars, unitVars>>

\* mutant: the loop runs over the scratch buffer whatever the descriptor's size
CopyLoopCondNoSize(i, size) == i < CONFIG_AUDIO_N_SAMPLES_BUFFER

\* main.c:186: the condition of the copy loop
CopyLoopCond(i, size) == (i < CONFIG_AUDIO_N_SAMPLES_BUFFER) /\ (i < size)

\* main.c:186-196: the copy loop from index i on; out is what it has written so far
RECURSIVE CopyLoop(_, _, _, _, _)
CopyLoop(mode, buffer, size, i, out) ==
    IF CopyLoopCond(i, size)
    THEN CopyLoop(mode, buffer, size, i + 1,
                  [j \in 0 .. i |-> IF j = i THEN Quantize(mode, buffer[j]) ELSE out[j]])
    ELSE out

\* main.c:177-196: zero the scratch buffer, render it in sub-blocks, quantise it.
\* The rendered values are those sequencer_process and synth_process leave in the
\* scratch buffer; here every mix is possible.
DspRender ==
    /\ dsp_pc = "render"
    /\ \E mix \in [0 .. CONFIG_AUDIO_N_SAMPLES_BUFFER - 1 -> MixValues] :
          /\ dsp_buffer' = [i \in 0 .. CONFIG_AUDIO_N_SAMPLES_BUFFER - 1 |-> 0 + mix[i]]
          /\ \E mode \in CastModes :
                pcm_out' = [buf |-> tx_buffer.data, size |-> tx_buffer.size,
                            samples |-> CopyLoop(mode, dsp_buffer', tx_buffer.size, 0,
                                                 [j \in {} |-> 0])]
    /\ dsp_pc' = "take"
    /\ UNCHANGED <<audiohw_buffer, desc_irq, isr_pc, isr_event, isr_count, notify_value,
                   notify_total, notify_dropped, unconsumed, tx_buffer, tx_irq,
                   tx_copied, render_count, taken_k, notified_irq, taken_irq, rendered,
                   overrun>>
    /\ UNCHANGED <<synthVars, controlVars, unitVars>>

(***************************************************************************)
(* Floats of the DSP code: finite fixed-point integers, two infinities and *)
(* NaN (a division by zero yields them, and they propagate)                *)
(***************************************************************************)
PosInf == 10^9
NegInf == -(10^9)
NaN == 2 * 10^9
\* float.h: FLT_MAX, above every finite value of the model
FltMax == 10^9 - 1

IsNaN(x) == x = NaN
IsInf(x) == x = PosInf \/ x = NegInf

FAdd(a, b) ==
    IF IsNaN(a) \/ IsNaN(b) THEN NaN
    ELSE IF IsInf(a) /\ IsInf(b) THEN (IF a = b THEN a ELSE NaN)
    ELSE IF IsInf(a) THEN a
    ELSE IF IsInf(b) THEN b
    ELSE a + b

\* the quotient n / d of two integers, rounded toward zero
TruncDiv(n, d) ==
    IF (n >= 0) = (d > 0) THEN Abs(n) \div Abs(d) ELSE -(Abs(n) \div Abs(d))

\* n / d rounded to the nearest integer, ties to the even one (d > 0)
RoundNearestEven(n, d) ==
    LET q == n \div d
        r == n % d
    IN IF 2 * r < d THEN q
       ELSE IF 2 * r > d THEN q + 1
       ELSE IF q % 2 = 0 THEN q ELSE q + 1

\* the quotient n / d as a float stores it: the nearest representable value
RoundDivF(n, d) == IF d > 0 THEN RoundNearestEven(n, d) ELSE RoundNearestEven(-n, -d)

\* a / b: x/0 is an infinity, 0/0 is NaN, x/inf is 0, any other quotient is rounded
FDiv(a, b) ==
    IF IsNaN(a) \/ IsNaN(b) THEN NaN
    ELSE IF IsInf(a) /\ IsInf(b) THEN NaN
    ELSE IF IsInf(a) THEN (IF (a > 0) = (b >= 0) THEN PosInf ELSE NegInf)
    ELSE IF IsInf(b) THEN 0
    ELSE IF b = 0 THEN (IF a = 0 THEN NaN ELSE IF a > 0 THEN PosInf ELSE NegInf)
    ELSE RoundDivF(a, b)

\* a * b / scale for fixed-point factors, rounded
FMul(a, b, scale) ==
    IF IsNaN(a) \/ IsNaN(b) THEN NaN
    ELSE IF IsInf(a) \/ IsInf(b)
         THEN (IF a = 0 \/ b = 0 THEN NaN
               ELSE IF (a > 0) = (b > 0) THEN PosInf ELSE NegInf)
    ELSE RoundDivF(a * b, scale)

\* comparisons: false whenever an operand is NaN
FLt(a, b) == ~IsNaN(a) /\ ~IsNaN(b) /\ a < b
FLe(a, b) == ~IsNaN(a) /\ ~IsNaN(b) /\ a <= b
FGe(a, b) == ~IsNaN(a) /\ ~IsNaN(b) /\ a >= b

(***************************************************************************)
(* Scaled configuration of the synthesizer                                 *)
(***************************************************************************)
\* number of voices
CONFIG_SYNTH_POLYPHONY == 2
\* calls made on the synthesizer in one behaviour
MaxSynthOps == 5
\* samples per second
CONFIG_AUDIO_SAMPLE_RATE == 2
\* samples per wavetable period
CONFIG_DSP_WAVETABLE_LENGTH == 4
\* 1.0f as an envelope value (divisible by every segment length of the model)
EnvScale == 2 * 60
\* 1.0f as a velocity
VelScale == 2
\* 1.0f as an FM index or an FM ratio (index_min and index_max are quarters)
FmScale == 2 * 2

Voices == 0 .. CONFIG_SYNTH_POLYPHONY - 1
\* the pitches of the model: octaves above MIDI note 0, one more than voices
Notes == {12 * k : k \in 0 .. CONFIG_SYNTH_POLYPHONY}
\* sequencer.c:158: (rand() % 256) / 255.0, the two ends of the range
Velocities == {0, VelScale}
\* the outcomes of rand() % 256 the model draws: the two ends of the range
RandDraws == {255}

\* main.c:57-63: env1 = {attack 0.1, peak 1.0, decay 0.3, sustain 0.5, release 0.5},
\* the times scaled to one second each
Env1Config == [attack |-> 1, peak |-> EnvScale, decay |-> 1,
               sustain |-> EnvScale \div 2, release |-> 1]
\* main.c:65-71: env2 = {attack 0.5, peak 1.0, decay 0.0, sustain 1.0, release 0.2},
\* the non-zero times scaled to one second
Env2Config == [attack |-> 1, peak |-> EnvScale, decay |-> 0,
               sustain |-> EnvScale, release |-> 1]
\* main.c:51, 73-78: fm = {ratios {1.0}, index_min 0.25, index_max 0.75}
FmConfig == [n_ratios |-> 1, ratios |-> <<FmScale>>,
             index_min |-> FmScale \div 4, index_max |-> (3 * FmScale) \div 4]

(***************************************************************************)
(* dsp/adsr.c: ADSR envelope generator                                     *)
(***************************************************************************)
\* adsr.c:18-20: calloc, every field zero, status DSP_ADSR_STOPPED (= 0)
dsp_adsr_new ==
    [envelope |-> [attack  |-> [value |-> 0, duration |-> 0, increment |-> 0],
                   decay   |-> [value |-> 0, duration |-> 0, increment |-> 0],
                   release |-> [value |-> 0, duration |-> 0, increment |-> 0],
                   sustain |-> 0],
     state |-> [status |-> "STOPPED", value |-> 0]]

\* variant: the release increment computed with the opposite sign
RecalcRisingRelease(a, sample_rate) ==
    [a EXCEPT !.envelope.attack.increment =
                  FDiv(a.envelope.attack.value - a.envelope.release.value,
                       sample_rate * a.envelope.attack.duration),
              !.envelope.decay.increment =
                  FDiv(a.envelope.decay.value - a.envelope.attack.value,
                       sample_rate * a.envelope.decay.duration),
              !.envelope.release.increment =
                  FDiv(a.envelope.sustain - a.envelope.release.value,
                       sample_rate * a.envelope.release.duration)]

\* adsr.c:39-53
dsp_adsr_recalc_increments(adsr, sample_rate) ==
    LET e == adsr.envelope
        attack_inc  == FDiv(e.attack.value - e.release.value,
                            sample_rate * e.attack.duration)
        decay_inc   == FDiv(e.decay.value - e.attack.value,
                            sample_rate * e.decay.duration)
        release_inc == FDiv(e.release.value - e.sustain,
                            sample_rate * e.release.duration)
    IN [adsr EXCEPT !.envelope.attack.increment = attack_inc,
                    !.envelope.decay.increment = decay_inc,
                    !.envelope.release.increment = release_inc]

\* adsr.h:74-81 (declaration only): sets the three breakpoints and the sustain
\* level, then recomputes the three increments together
dsp_adsr_set_values(adsr, sample_rate, values) ==
    dsp_adsr_recalc_increments(
        [adsr EXCEPT !.envelope.attack.value = values.peak,
                     !.envelope.attack.duration = values.attack,
                     !.envelope.decay.value = values.sustain,
                     !.envelope.decay.duration = values.decay,
                     !.envelope.sustain = values.sustain,
                     !.envelope.release.value = 0,
                     !.envelope.release.duration = values.release],
        sample_rate)

\* adsr.c:58-63
dsp_adsr_set_attack(adsr, sample_rate, duration) ==
    dsp_adsr_recalc_increments(
        [adsr EXCEPT !.envelope.attack.value = EnvScale,
                     !.envelope.attack.duration = duration],
        sample_rate)

\* adsr.c:68-73
dsp_adsr_set_decay(adsr, sample_rate, duration) ==
    dsp_adsr_recalc_increments(
        [adsr EXCEPT !.envelope.decay.value = adsr.envelope.sustain,
                     !.envelope.decay.duration = duration],
        sample_rate)

\* adsr.c:78-82: the decay breakpoint keeps the target it had
dsp_adsr_set_sustain(adsr, sample_rate, level) ==
    dsp_adsr_recalc_increments([adsr EXCEPT !.envelope.sustain = level], sample_rate)

\* adsr.c:88-93
dsp_adsr_set_release(adsr, sample_rate, duration) ==
    dsp_adsr_recalc_increments(
        [adsr EXCEPT !.envelope.release.value = 0,
                     !.envelope.release.duration = duration],
        sample_rate)

\* variant: the attack starts again from value 0
TriggerAttackFromZero(adsr) ==
    [adsr EXCEPT !.state = [status |-> "ATTACK", value |-> 0]]

\* adsr.c:98-100
dsp_adsr_trigger_attack(adsr) == [adsr EXCEPT !.state.status = "ATTACK"]

\* adsr.c:105-107
dsp_adsr_trigger_release(adsr) == [adsr EXCEPT !.state.status = "RELEASE"]

\* adsr.c:113, 148: the value a tick returns, read before the update
dsp_adsr_tick_return(adsr) == adsr.state.value

\* variant: the value keeps falling by the decay increment in the sustain stage
TickSustainFalls(adsr) ==
    LET e == adsr.envelope
        v == adsr.state.value
    IN CASE adsr.state.status = "ATTACK" ->
              LET nv == FAdd(v, e.attack.increment)
              IN IF FGe(nv, e.attack.value)
                 THEN [adsr EXCEPT !.state = [status |-> "DECAY", value |-> e.attack.value]]
                 ELSE [adsr EXCEPT !.state.value = nv]
         [] adsr.state.status \in {"DECAY", "SUSTAIN"} ->
              LET nv == FAdd(v, e.decay.increment)
              IN IF FLe(nv, e.decay.value) /\ adsr.state.status = "DECAY"
                 THEN [adsr EXCEPT !.state = [status |-> "SUSTAIN", value |-> e.decay.value]]
                 ELSE [adsr EXCEPT !.state.value = nv]
         [] adsr.state.status = "RELEASE" ->
              LET nv == FAdd(v, e.release.increment)
              IN IF FLe(nv, 0)
                 THEN [adsr EXCEPT !.state = [status |-> "STOPPED", value |-> 0]]
                 ELSE [adsr EXCEPT !.state.value = nv]
         [] OTHER -> adsr

\* variant: the release stage stops at or below zero and keeps the value it reached
TickReleaseUnclamped(adsr) ==
    LET e == adsr.envelope
        v == adsr.state.value
    IN CASE adsr.state.status = "ATTACK" ->
              LET nv == FAdd(v, e.attack.increment)
              IN IF FGe(nv, e.attack.value)
                 THEN [adsr EXCEPT !.state = [status |-> "DECAY", value |-> e.attack.value]]
                 ELSE [adsr EXCEPT !.state.value = nv]
         [] adsr.state.status = "DECAY" ->
              LET nv == FAdd(v, e.decay.increment)
              IN IF FLe(nv, e.decay.value)
                 THEN [adsr EXCEPT !.state = [status |-> "SUSTAIN", value |-> e.decay.value]]
                 ELSE [adsr EXCEPT !.state.value = nv]
         [] adsr.state.status = "RELEASE" ->
              LET nv == FAdd(v, e.release.increment)
              IN IF FLe(nv, 0)
                 THEN [adsr EXCEPT !.state = [status |-> "STOPPED", value |-> nv]]
                 ELSE [adsr EXCEPT !.state.value = nv]
         [] OTHER -> adsr

\* adsr.c:112-149: the envelope after one tick; the tick returns adsr.state.value
dsp_adsr_tick(adsr) ==
    LET e == adsr.envelope
        v == adsr.state.value
    IN CASE adsr.state.status = "ATTACK" ->
              LET nv == FAdd(v, e.attack.increment)
              IN IF FGe(nv, e.attack.value)
                 THEN [adsr EXCEPT !.state = [status |-> "DECAY", value |-> e.attack.value]]
                 ELSE [adsr EXCEPT !.state.value = nv]
         [] adsr.state.status = "DECAY" ->
              LET nv == FAdd(v, e.decay.increment)
              IN IF FLe(nv, e.decay.value)
                 THEN [adsr EXCEPT !.state = [status |-> "SUSTAIN", value |-> e.decay.value]]
                 ELSE [adsr EXCEPT !.state.value = nv]
         [] adsr.state.status = "RELEASE" ->
              LET nv == FAdd(v, e.release.increment)
              IN IF FLe(nv, 0)
                 THEN [adsr EXCEPT !.state = [status |-> "STOPPED", value |-> 0]]
                 ELSE [adsr EXCEPT !.state.value = nv]
         [] OTHER -> adsr

(***************************************************************************)
(* dsp/wavetable.c, dsp/oscil.c, dsp/oscil.h, dsp/utils.c                  *)
(***************************************************************************)
\* wavetable.c:16: cos at the four sample points 0, pi/2, pi, 3pi/2
dsp_wavetable_cos(i) ==
    CASE i % 4 = 0 -> 1
      [] i % 4 = 2 -> 0 - 1
      [] OTHER -> 0

\* wavetable.c:48-50: samples[length + i] = samples[i] for i = 0 .. guards - 1
RECURSIVE CopyGuards(_, _, _, _)
CopyGuards(samples, length, guards, i) ==
    IF i < guards
    THEN CopyGuards([samples EXCEPT ![length + i] = samples[i]], length, guards, i + 1)
    ELSE samples

\* wavetable.c:40: the block from malloc, before anything is stored in it
FreshSamples(length, guards) == [i \in 0 .. length + guards - 1 |-> 0]

\* wavetable.c:44-46: samples[i] = func(i * incr) for i = 0 .. length - 1;
\* func[i] stands for func(i * incr)
FillSamples(samples, length, func) ==
    [i \in DOMAIN samples |-> IF i < length THEN func[i] ELSE samples[i]]

\* variant: a table whose guard points are left as allocated
NewCustomNoGuardCopy(length, guards, func) ==
    [length |-> length,
     samples |-> FillSamples(FreshSamples(length, guards), length, func)]

\* wavetable.c:36-53: length samples followed by guards copies of the first ones
dsp_wavetable_new_custom(length, guards, func) ==
    [length |-> length,
     samples |-> CopyGuards(FillSamples(FreshSamples(length, guards), length, func),
                            length, guards, 0)]

\* wavetable.c:29-31, main.c:48: the shared cosine table
Wavetable ==
    dsp_wavetable_new_custom(CONFIG_DSP_WAVETABLE_LENGTH, 1,
                             [i \in 0 .. CONFIG_DSP_WAVETABLE_LENGTH - 1 |->
                                  dsp_wavetable_cos(i)])

\* utils.c:21-35: c0 * ratio^midinote, in units of c0, for the octaves of note 0
mtof(midinote) == 2 ^ (midinote \div 12)

\* oscil.c:18-22: calloc
dsp_oscil_new == [frequency |-> 0, increment |-> 0, index |-> 0]

\* variant: the phase index starts again at 0 on every call
OscilReinitResetsIndex(oscil, sample_rate, frequency, reset_index) ==
    [frequency |-> frequency,
     increment |-> FDiv(frequency * Wavetable.length, sample_rate),
     index |-> 0]

\* oscil.c:27-31
dsp_oscil_reinit(oscil, sample_rate, frequency, reset_index) ==
    [frequency |-> frequency,
     increment |-> FDiv(frequency * Wavetable.length, sample_rate),
     index |-> IF reset_index THEN 0 ELSE oscil.index]

\* oscil.h:70: while (index >= length) index -= length
RECURSIVE WrapDown(_)
WrapDown(index) ==
    IF FGe(index, Wavetable.length) /\ ~IsInf(index)
    THEN WrapDown(index - Wavetable.length)
    ELSE index

\* oscil.h:71: while (index < 0) index += length
RECURSIVE WrapUp(_)
WrapUp(index) ==
    IF FLt(index, 0) /\ ~IsInf(index)
    THEN WrapUp(index + Wavetable.length)
    ELSE index

\* wavetable.h:90-96: linear interpolation between two samples. The index is
\* counted in scale-ths of a table position and the result in scale-ths of a
\* sample unit; (int) index drops the fraction. An index that is no number reads
\* no sample of the table.
dsp_wavetable_read2(wavetable, index, scale) ==
    IF IsNaN(index) \/ IsInf(index) THEN NaN
    ELSE LET iindex == TruncDiv(index, scale)
             value  == wavetable.samples[iindex]
             slope  == wavetable.samples[iindex + 1] - value
         IN value * scale + slope * (index - iindex * scale)

\* oscil.h:58-74: the oscillator after one tick; the modulator moves the index
\* by modulator * length * 0.01, the index is kept in whole table positions
dsp_oscil_tick(oscil, modulator) ==
    LET fm == FDiv(FMul(modulator, Wavetable.length, 1), 100)
    IN [oscil EXCEPT !.index = WrapUp(WrapDown(FAdd(oscil.index,
                                                    FAdd(oscil.increment, fm))))]

(***************************************************************************)
(* dsp/pan.c                                                               *)
(***************************************************************************)
\* pan.c:24-33: the flag `init` is tested and never cleared, so every call builds
\* both tables again; each dsp_wavetable_new makes two malloc calls
\* (wavetable.c:37, 40). The result is the number of malloc calls of one call.
InitWavetablesAllocs(init) == IF ~init THEN 0 ELSE 2 + 2

(***************************************************************************)
(* synth.c                                                                 *)
(***************************************************************************)

NullVoice == 0 - 1

\* synth.c:27-61: the voices after synth_new; lfo_freq is rand() % 256 / 255 * 3 + 0.33
NewVoice(lfo_freq) ==
    [active |-> FALSE, note |-> 0, velocity |-> 0,
     osc1 |-> dsp_oscil_new,
     env1 |-> dsp_adsr_set_values(dsp_adsr_new, CONFIG_AUDIO_SAMPLE_RATE, Env1Config),
     lfo1 |-> dsp_oscil_reinit(dsp_oscil_new, CONFIG_AUDIO_SAMPLE_RATE, lfo_freq, TRUE),
     osc2 |-> dsp_oscil_new,
     env2 |-> dsp_adsr_set_values(dsp_adsr_new, CONFIG_AUDIO_SAMPLE_RATE, Env2Config),
     fm_index_2_1 |-> 0, fm_ratio_2_1 |-> 0]

\* synth.c:129
Amplitude(voice) == FMul(voice.velocity, voice.env1.state.value, 1)

\* synth.c:125: the amplitude every candidate for stealing has to stay below
StealAmpInit == FltMax

\* variant: the first inactive voice of the scan is kept
RECURSIVE ScanVoicesFirstFree(_, _, _, _)
ScanVoicesFirstFree(vs, note, i, c) ==
    IF i >= CONFIG_SYNTH_POLYPHONY THEN c
    ELSE LET amp == Amplitude(vs[i])
             c1 == IF vs[i].note = note THEN [c EXCEPT !.retrigger = i] ELSE c
             c2 == IF ~vs[i].active
                   THEN (IF c1.free_voice = NullVoice THEN [c1 EXCEPT !.free_voice = i]
                         ELSE c1)
                   ELSE IF FLt(amp, c1.steal_amp)
                        THEN [c1 EXCEPT !.steal_voice = i, !.steal_amp = amp]
                        ELSE c1
         IN ScanVoicesFirstFree(vs, note, i + 1, c2)

\* variant: a voice as quiet as the candidate replaces it
RECURSIVE ScanVoicesLastQuietest(_, _, _, _)
ScanVoicesLastQuietest(vs, note, i, c) ==
    IF i >= CONFIG_SYNTH_POLYPHONY THEN c
    ELSE LET amp == Amplitude(vs[i])
             c1 == IF vs[i].note = note THEN [c EXCEPT !.retrigger = i] ELSE c
             c2 == IF ~vs[i].active THEN [c1 EXCEPT !.free_voice = i]
                   ELSE IF FLe(amp, c1.steal_amp)
                        THEN [c1 EXCEPT !.steal_voice = i, !.steal_amp = amp]
                        ELSE c1
         IN ScanVoicesLastQuietest(vs, note, i + 1, c2)

\* synth.c:127-141, the scan from voice i on with the three candidates found so far
RECURSIVE ScanVoices(_, _, _, _)
ScanVoices(vs, note, i, c) ==
    IF i >= CONFIG_SYNTH_POLYPHONY THEN c
    ELSE LET amp == Amplitude(vs[i])
             c1 == IF vs[i].note = note THEN [c EXCEPT !.retrigger = i] ELSE c
             c2 == IF ~vs[i].active THEN [c1 EXCEPT !.free_voice = i]
                   ELSE IF FLt(amp, c1.steal_amp)
                        THEN [c1 EXCEPT !.steal_voice = i, !.steal_amp = amp]
                        ELSE c1
         IN ScanVoices(vs, note, i + 1, c2)

\* variant: a free voice is preferred to the voice that holds the note
PickVoiceFreeFirst(c) ==
    IF c.free_voice # NullVoice THEN c.free_voice
    ELSE IF c.retrigger # NullVoice THEN c.retrigger
    ELSE c.steal_voice

\* variant: no voice is stolen when none is free
PickVoiceNoSteal(c) ==
    IF c.retrigger # NullVoice THEN c.retrigger ELSE c.free_voice

\* synth.c:143: retrigger ? retrigger : free_voice ? free_voice : steal_voice
PickVoice(c) ==
    IF c.retrigger # NullVoice THEN c.retrigger
    ELSE IF c.free_voice # NullVoice THEN c.free_voice
    ELSE c.steal_voice

\* synth.c:122-143: the voice synth_note_on selects (NullVoice: a NULL pointer)
SelectVoice(vs, note) ==
    PickVoice(ScanVoices(vs, note, 0,
                         [retrigger |-> NullVoice, free_voice |-> NullVoice,
                          steal_voice |-> NullVoice, steal_amp |-> StealAmpInit]))

\* synth.c:151: rand() % 256 / 255.0f * (index_max - index_min) + index_min
FmIndexOf(r) ==
    TruncDiv(r * (FmConfig.index_max - FmConfig.index_min), 255) + FmConfig.index_min

\* synth.c:145-160: the selected voice after synth_note_on
TriggerVoice(voice, note, velocity, ratio_index, r) ==
    LET ratio == FmConfig.ratios[ratio_index + 1]
        freq1 == mtof(note)
        freq2 == FMul(freq1, ratio, FmScale)
    IN [voice EXCEPT
          !.note = note,
          !.velocity = velocity,
          !.fm_ratio_2_1 = ratio,
          !.fm_index_2_1 = FmIndexOf(r),
          !.osc1 = dsp_oscil_reinit(voice.osc1, CONFIG_AUDIO_SAMPLE_RATE, freq1, FALSE),
          !.osc2 = dsp_oscil_reinit(voice.osc2, CONFIG_AUDIO_SAMPLE_RATE, freq2, FALSE),
          !.env1 = dsp_adsr_trigger_attack(voice.env1),
          !.env2 = dsp_adsr_trigger_attack(voice.env2)]

\* synth.c:120-161
synth_note_on(vs, note, velocity, ratio_index, r) ==
    LET v == SelectVoice(vs, note)
    IN IF v = NullVoice THEN vs
       ELSE [vs EXCEPT ![v] = TriggerVoice(vs[v], note, velocity, ratio_index, r)]

\* variant: the active flag is not looked at
NoteOffMatchesAnyVoice(voice, note) == voice.note = note

\* synth.c:172: which voices synth_note_off releases
NoteOffMatches(voice, note) == voice.note = note /\ voice.active

\* synth.c:168-176
synth_note_off(vs, note) ==
    [i \in Voices |->
        IF NoteOffMatches(vs[i], note)
        THEN [vs[i] EXCEPT !.env1 = dsp_adsr_trigger_release(vs[i].env1)]
        ELSE vs[i]]

\* synth.c:186-193: one voice after one frame
TickVoice(voice) ==
    LET sample2 == FMul(FMul(dsp_wavetable_read2(Wavetable, voice.osc2.index, 1),
                             voice.env2.state.value, EnvScale),
                        voice.fm_index_2_1, FmScale)
    IN [voice EXCEPT
          !.osc2 = dsp_oscil_tick(voice.osc2, 0),
          !.env2 = dsp_adsr_tick(voice.env2),
          !.osc1 = dsp_oscil_tick(voice.osc1, sample2),
          !.env1 = dsp_adsr_tick(voice.env1),
          !.lfo1 = dsp_oscil_tick(voice.lfo1, 0)]

\* synth.c:184-198: the frames i = 0, 2, ... below length
RECURSIVE RenderFrames(_, _, _)
RenderFrames(vs, i, length) ==
    IF i < length
    THEN RenderFrames([j \in Voices |-> TickVoice(vs[j])], i + 2, length)
    ELSE vs

\* variant: every voice is flagged active
VoiceAlwaysActive(voice) == TRUE

\* synth.c:203
VoiceActive(voice) == voice.env1.state.status # "STOPPED"

\* synth.c:182-205: the voices after synth_process
synth_process(vs, length) ==
    LET rendered_vs == RenderFrames(vs, 0, length)
    IN [j \in Voices |-> [rendered_vs[j] EXCEPT !.active = VoiceActive(rendered_vs[j])]]

\* synth.c:192: pan = lfo sample * 0.75, counted in quarters of a table position
PanScale == 4
PanOf(voice) == FMul(dsp_wavetable_read2(Wavetable, voice.lfo1.index, 1), 3, 1)

\* synth.c:188-193, pan.c:41-42: what one frame of one voice passes to
\* dsp_wavetable_read2 as the index, each with the unit it is counted in
FrameReads(voice) ==
    {[caller |-> "osc2", index |-> voice.osc2.index, scale |-> 1],
     [caller |-> "osc1", index |-> voice.osc1.index, scale |-> 1],
     [caller |-> "lfo1", index |-> voice.lfo1.index, scale |-> 1],
     [caller |-> "pan", index |-> PanOf(voice), scale |-> PanScale]}

\* synth.c:184-198: the indices read during one synth_process
RECURSIVE ProcessReads(_, _, _)
ProcessReads(vs, i, length) ==
    IF i < length
    THEN UNION {FrameReads(vs[j]) : j \in Voices}
             \cup ProcessReads([j \in Voices |-> TickVoice(vs[j])], i + 2, length)
    ELSE {}

\* wavetable.c:15: sin at the four sample points 0, pi/2, pi, 3pi/2
dsp_wavetable_sin(i) ==
    CASE i % 4 = 1 -> 1
      [] i % 4 = 3 -> 0 - 1
      [] OTHER -> 0

\* pan.c:28-29: the panner's own cosine and sine tables, one guard point each
wt_cos == Wavetable
wt_sin ==
    dsp_wavetable_new_custom(CONFIG_DSP_WAVETABLE_LENGTH, 1,
                             [i \in 0 .. CONFIG_DSP_WAVETABLE_LENGTH - 1 |->
                                  dsp_wavetable_sin(i)])

\* pan.c:31: pan_const = sqrt(2) * 0.5, as the fraction 70/99
pan_const(x) == FDiv(FMul(70, x, 1), 99)

\* pan.c:38-46: the left and right output in PanScale-ths of a sample unit. The
\* tables are read at pan itself; the parameter sample takes no part in the result.
dsp_pan_stereo(sample, pan) ==
    LET cos_value == dsp_wavetable_read2(wt_cos, pan, PanScale)
        sin_value == dsp_wavetable_read2(wt_sin, pan, PanScale)
    IN [left  |-> pan_const(FAdd(cos_value, sin_value)),
        right |-> pan_const(FAdd(cos_value, 0 - sin_value))]

\* synth.c:188: the modulator sample of this frame
Sample2(voice) ==
    FMul(FMul(dsp_wavetable_read2(Wavetable, voice.osc2.index, 1),
              voice.env2.state.value, EnvScale),
         voice.fm_index_2_1, FmScale)

\* synth.c:189: the carrier sample of this frame, in EnvScale-ths; gain_staging
\* is 1 / CONFIG_SYNTH_POLYPHONY (synth.c:38)
Sample1(voice) ==
    FDiv(FMul(dsp_wavetable_read2(Wavetable, voice.osc1.index, 1),
              voice.env1.state.value, 1),
         CONFIG_SYNTH_POLYPHONY)

\* synth.c:188-193: what one voice adds to the left and right slot of one frame
VoiceFrame(voice) == dsp_pan_stereo(Sample1(voice), PanOf(voice))

\* synth.c:185-196: the sum of the voices j, j+1, ... in one frame
RECURSIVE MixFrame(_, _, _)
MixFrame(vs, j, acc) ==
    IF j >= CONFIG_SYNTH_POLYPHONY THEN acc
    ELSE MixFrame(vs, j + 1, [left  |-> FAdd(acc.left, VoiceFrame(vs[j]).left),
                              right |-> FAdd(acc.right, VoiceFrame(vs[j]).right)])

\* synth.c:184-198: the frames that synth_process adds to a zeroed buffer
RECURSIVE ProcessFrames(_, _, _)
ProcessFrames(vs, i, length) ==
    IF i < length
    THEN <<MixFrame(vs, 0, [left |-> 0, right |-> 0])>>
             \o ProcessFrames([j \in Voices |-> TickVoice(vs[j])], i + 2, length)
    ELSE <<>>

\* synth.c:193 with pan.c:38-39: dsp_pan_stereo runs _init_wavetables once per
\* voice and frame; the malloc calls of one synth_process
ProcessAllocs(init, length) ==
    ((length + 1) \div 2) * CONFIG_SYNTH_POLYPHONY * InitWavetablesAllocs(init)

\* the opening run of note_on calls, recorded up to polyphony + 1 entries
RecordOn(hist, entry) ==
    IF Len(hist) <= CONFIG_SYNTH_POLYPHONY /\ (Len(hist) = 0 \/ hist[1].valid)
    THEN Append(hist, entry) ELSE hist

\* a control-surface or sequencer call of synth_note_on
NoteOn ==
    /\ \E note \in Notes, velocity \in Velocities, r \in RandDraws :
           LET v == SelectVoice(voices, note)
           IN /\ synth_ops < MaxSynthOps
              /\ synth_ops' = synth_ops + 1
              /\ voices' = synth_note_on(voices, note, velocity, 0, r)
              /\ pre_voices' = voices
              /\ last_op' = [op |-> "note_on", note |-> note, velocity |-> velocity,
                             voice |-> v, prev_owner |-> owner[note]]
              /\ on_hist' = RecordOn(on_hist,
                                     [note |-> note, voice |-> v, valid |-> TRUE,
                                      rendered_before |-> last_op.op = "process"])
              /\ owner' = [owner EXCEPT ![note] = v]
              /\ heap_allocs' = 0
              /\ UNCHANGED pan_init
    /\ UNCHANGED <<pipeVars, controlVars, unitVars>>

\* a control-surface or sequencer call of synth_note_off
NoteOff ==
    /\ \E note \in Notes :
           /\ synth_ops < MaxSynthOps
           /\ synth_ops' = synth_ops + 1
           /\ voices' = synth_note_off(voices, note)
           /\ pre_voices' = voices
           /\ last_op' = [op |-> "note_off", note |-> note, velocity |-> 0,
                          voice |-> NullVoice, prev_owner |-> NullVoice]
           /\ on_hist' = IF Len(on_hist) <= CONFIG_SYNTH_POLYPHONY
                         THEN <<[note |-> 0, voice |-> NullVoice, valid |-> FALSE,
                                 rendered_before |-> FALSE]>>
                         ELSE on_hist
           /\ heap_allocs' = 0
           /\ UNCHANGED <<pan_init, owner>>
    /\ UNCHANGED <<pipeVars, controlVars, unitVars>>

\* main.c:183: the worker renders one sub-block
Process ==
    /\ synth_ops < MaxSynthOps
    /\ synth_ops' = synth_ops + 1
    /\ voices' = synth_process(voices, CONFIG_AUDIO_N_SAMPLES_CYCLE)
    /\ pre_voices' = voices
    /\ last_op' = [op |-> "process", note |-> 0, velocity |-> 0, voice |-> NullVoice,
                   prev_owner |-> NullVoice]
    /\ heap_allocs' = ProcessAllocs(pan_init, CONFIG_AUDIO_N_SAMPLES_CYCLE)
    /\ UNCHANGED <<pan_init, on_hist, owner>>
    /\ UNCHANGED <<pipeVars, controlVars, unitVars>>

\* main.c:81, synth.c:27-61: the synthesizer after synth_new
InitSynth ==
    /\ voices = [i \in Voices |-> NewVoice(1)]
    /\ pan_init = TRUE
    /\ heap_allocs = 0
    /\ last_op = [op |-> "init", note |-> 0, velocity |-> 0, voice |-> NullVoice,
                  prev_owner |-> NullVoice]
    /\ pre_voices = voices
    /\ on_hist = <<>>
    /\ owner = [n \in Notes |-> NullVoice]
    /\ synth_ops = 0

NextSynth ==
    \/ NoteOn
    \/ NoteOff
    \/ Process

InitPipeline ==
    /\ audiohw_buffer = [size |-> 0, data |-> 0]
    /\ desc_irq = [size |-> 0, data |-> 0]
    /\ isr_pc = "idle"
    /\ isr_event = [dma_buf |-> 0, size |-> 0]
    /\ isr_count = 0
    /\ notify_value = 0
    /\ notify_total = 0
    /\ notify_dropped = 0
    /\ unconsumed = 0
    /\ dsp_pc = "take"
    /\ tx_buffer = [size |-> 0, data |-> 0]
    /\ tx_irq = [size |-> 0, data |-> 0]
    /\ tx_copied = {}
    /\ dsp_buffer = [i \in 0 .. CONFIG_AUDIO_N_SAMPLES_BUFFER - 1 |-> 0]
    /\ pcm_out = [buf |-> 0, size |-> 0, samples |-> [i \in {} |-> 0]]
    /\ render_count = 0
    /\ taken_k = 0
    /\ notified_irq = 0
    /\ taken_irq = 0
    /\ rendered = <<>>
    /\ overrun = FALSE

NextPipeline ==
    \/ IsrStoreData
    \/ IsrStoreSize
    \/ IsrNotify
    \/ DspTake
    \/ DspCopy
    \/ DspRender

(***************************************************************************)
(* sequencer.c, and the control surface of ui/ui.c as main.c wires it      *)
(***************************************************************************)
\* sequencer.c:19
N_NOTES_PLAYING == 8
\* sequencer.c:27: QUARTER, EIGHTH, SIXTEENTH
MAX_DURATION == 3
\* main.c:93: sequencer_set_bpm(sequencer, 80)
InitialBpm == 80
\* main.c:135-137: the tempo parameter of the control surface
BpmMin == 1
BpmMax == 280
BpmStep == 1
\* the sequencer counts time in sixtieths of a synthesizer sample, so that one
\* step of the tempo changes the note durations
SequencerSampleRate == 60 * CONFIG_AUDIO_SAMPLE_RATE
\* render cycles of the worker in one behaviour
MaxRenderCycles == 1
\* button and encoder events of the control surface in one behaviour
MaxButtonEvents == 4

\* main.c:84: the notes to choose from, here the octaves the model can pitch,
\* one more than there are voices
NotesAvailable == [k \in 1 .. CONFIG_SYNTH_POLYPHONY + 1 |-> 12 * k]

\* main.c:181: sub-blocks of one render cycle
SubBlocks == CONFIG_AUDIO_N_SAMPLES_BUFFER \div CONFIG_AUDIO_N_SAMPLES_CYCLE

Slots == 0 .. N_NOTES_PLAYING - 1

\* variant: the shorter durations are thirds
ThirdOf(duration) == TruncDiv(duration, 3)

\* sequencer.c:92-94: the three durations for a tempo
QuarterOf(bpm) == TruncDiv(SequencerSampleRate * 60, bpm)
HalfOf(duration) == TruncDiv(duration, 2)

\* sequencer.c:89-100, run to completion (as app_main does before the tasks start)
sequencer_set_bpm(seq, bpm) ==
    [seq EXCEPT !.bpm = bpm,
                !.durations = <<QuarterOf(bpm), HalfOf(QuarterOf(bpm)),
                                HalfOf(HalfOf(QuarterOf(bpm)))>>]

\* sequencer.c:112-117
sequencer_set_running(seq, running) ==
    [seq EXCEPT !.running = running, !.pause_remaining = 0]

\* sequencer.c:58-74: calloc
sequencer_new ==
    [bpm |-> 0, running |-> FALSE, durations |-> <<0, 0, 0>>, pause_remaining |-> 0,
     notes_playing |-> [i \in Slots |-> [note |-> 0, samples_remaining |-> 0]]]

\* variant: a slot expires only while the sequencer is running
ExpiresWhileRunning(seq, i, n_samples_passed) ==
    /\ seq.running
    /\ seq.notes_playing[i].samples_remaining > 0
    /\ seq.notes_playing[i].samples_remaining - n_samples_passed <= 0

\* sequencer.c:131-139: slot i expires in this call
Expires(seq, i, n_samples_passed) ==
    /\ seq.notes_playing[i].samples_remaining > 0
    /\ seq.notes_playing[i].samples_remaining - n_samples_passed <= 0

\* sequencer.c:135-138: the slots whose note gets synth_note_off in this call
NoteOffsIssued(seq, n_samples_passed) ==
    {i \in Slots : Expires(seq, i, n_samples_passed)}

\* sequencer.c:131-139: the slots after the note-off loop
AgeNotes(seq, n_samples_passed) ==
    [seq EXCEPT !.notes_playing =
        [i \in Slots |->
            IF seq.notes_playing[i].samples_remaining <= 0 THEN seq.notes_playing[i]
            ELSE [seq.notes_playing[i] EXCEPT !.samples_remaining = @ - n_samples_passed]]]

\* sequencer.c:131-139: the voices after the note-off calls of the slots i, i+1, ...
RECURSIVE ReleaseExpired(_, _, _, _)
ReleaseExpired(vs, seq, i, n_samples_passed) ==
    IF i >= N_NOTES_PLAYING THEN vs
    ELSE ReleaseExpired(IF Expires(seq, i, n_samples_passed)
                        THEN synth_note_off(vs, seq.notes_playing[i].note) ELSE vs,
                        seq, i + 1, n_samples_passed)

\* sequencer.c:153-154: the slots a new note can take
FreeSlots(seq) == {i \in Slots : seq.notes_playing[i].samples_remaining <= 0}

\* variant: a sequencer that is never taken as stopped
SequencerNeverStopped(seq) == FALSE

\* sequencer.c:142: if (!running) return
SequencerStopped(seq) == ~seq.running

\* sequencer.c:129-169, run to completion: the sequencer after the call, and
\* whether synth_note_on was called
sequencer_process(seq, n_samples_passed, pause_duration, note_duration, note_index) ==
    LET aged    == AgeNotes(seq, n_samples_passed)
        counted == [aged EXCEPT !.pause_remaining = @ - n_samples_passed]
        paused  == [counted EXCEPT !.pause_remaining = seq.durations[pause_duration]]
    IN IF SequencerStopped(seq) THEN [seq |-> aged, note_on |-> FALSE]
       ELSE IF counted.pause_remaining > 0 THEN [seq |-> counted, note_on |-> FALSE]
       ELSE IF FreeSlots(aged) = {} THEN [seq |-> paused, note_on |-> FALSE]
       ELSE LET i == CHOOSE k \in FreeSlots(aged) : \A m \in FreeSlots(aged) : k <= m
            IN [seq |-> [paused EXCEPT !.notes_playing[i] =
                            [note |-> NotesAvailable[note_index],
                             samples_remaining |-> seq.durations[note_duration]]],
                note_on |-> TRUE]

\* main.c:175: the worker is woken and starts a render cycle
WorkerTake ==
    /\ seq_pc = "wait"
    /\ render_cycles < MaxRenderCycles
    /\ render_cycles' = render_cycles + 1
    /\ seq_pc' = "note_offs"
    /\ sub_block' = 0
    /\ ctx' = "dsp"
    /\ UNCHANGED <<sequencer, pause_reg, ui_pc, ui_bpm, ui_events, ui_hist, voices, heap_allocs>>
    /\ UNCHANGED <<pipeVars, synthHistory, unitVars>>

\* sequencer.c:131-142: the note-off loop and the test of running
SeqNoteOffs ==
    /\ seq_pc = "note_offs"
    /\ sequencer' = AgeNotes(sequencer, CONFIG_AUDIO_N_SAMPLES_CYCLE)
    /\ voices' = ReleaseExpired(voices, sequencer, 0, CONFIG_AUDIO_N_SAMPLES_CYCLE)
    /\ seq_pc' = IF sequencer.running THEN "pause_load" ELSE "synth"
    /\ ctx' = "dsp"
    /\ UNCHANGED <<sub_block, pause_reg, render_cycles, ui_pc, ui_bpm, ui_events, ui_hist,
                   heap_allocs>>
    /\ UNCHANGED <<pipeVars, synthHistory, unitVars>>

\* sequencer.c:144: pause_remaining -= n_samples_passed, the load
SeqPauseLoad ==
    /\ seq_pc = "pause_load"
    /\ pause_reg' = sequencer.pause_remaining
    /\ seq_pc' = "pause_store"
    /\ ctx' = "dsp"
    /\ UNCHANGED <<sequencer, sub_block, render_cycles, ui_pc, ui_bpm, ui_events, ui_hist,
                   voices, heap_allocs>>
    /\ UNCHANGED <<pipeVars, synthHistory, unitVars>>

\* sequencer.c:144-145: the store, and the test of the new value
SeqPauseStore ==
    /\ seq_pc = "pause_store"
    /\ sequencer' = [sequencer EXCEPT
                        !.pause_remaining = pause_reg - CONFIG_AUDIO_N_SAMPLES_CYCLE]
    /\ seq_pc' = IF pause_reg - CONFIG_AUDIO_N_SAMPLES_CYCLE > 0 THEN "synth"
                 ELSE "new_note"
    /\ ctx' = "dsp"
    /\ UNCHANGED <<sub_block, pause_reg, render_cycles, ui_pc, ui_bpm, ui_events, ui_hist,
                   voices, heap_allocs>>
    /\ UNCHANGED <<pipeVars, synthHistory, unitVars>>

\* sequencer.c:147-168: the next pause, and a new note in the first free slot
SeqNewNote ==
    /\ seq_pc = "new_note"
    /\ \E pause_duration \in 1 .. MAX_DURATION, note_duration \in 1 .. MAX_DURATION,
          note_index \in DOMAIN NotesAvailable, velocity \in Velocities, r \in RandDraws :
          LET paused == [sequencer EXCEPT
                            !.pause_remaining = sequencer.durations[pause_duration]]
              note == NotesAvailable[note_index]
          IN IF FreeSlots(sequencer) = {}
             THEN /\ sequencer' = paused
                  /\ UNCHANGED voices
             ELSE LET i == CHOOSE k \in FreeSlots(sequencer) :
                                \A m \in FreeSlots(sequencer) : k <= m
                  IN /\ sequencer' = [paused EXCEPT !.notes_playing[i] =
                                        [note |-> note,
                                         samples_remaining |->
                                             sequencer.durations[note_duration]]]
                     /\ voices' = synth_note_on(voices, note, velocity, 0, r)
    /\ seq_pc' = "synth"
    /\ ctx' = "dsp"
    /\ UNCHANGED <<sub_block, pause_reg, render_cycles, ui_pc, ui_bpm, ui_events, ui_hist,
                   heap_allocs>>
    /\ UNCHANGED <<pipeVars, synthHistory, unitVars>>

\* main.c:183, 181: synth_process for the sub-block, then the next sub-block or,
\* after the last one, the wait for the next buffer
WorkerSynthProcess ==
    /\ seq_pc = "synth"
    /\ voices' = synth_process(voices, CONFIG_AUDIO_N_SAMPLES_CYCLE)
    /\ heap_allocs' = ProcessAllocs(pan_init, CONFIG_AUDIO_N_SAMPLES_CYCLE)
    /\ sub_block' = sub_block + 1
    /\ seq_pc' = IF sub_block + 1 < SubBlocks THEN "note_offs" ELSE "wait"
    /\ ctx' = "dsp"
    /\ UNCHANGED <<sequencer, pause_reg, render_cycles, ui_pc, ui_bpm, ui_events, ui_hist>>
    /\ UNCHANGED <<pipeVars, synthHistory, unitVars>>

\* ui.c:250-251 with main.c:37, 125-127: the Start/Stop button runs
\* cb_sequencer_start_stop, which calls sequencer_set_bpm(sequencer, bpm); pressed
\* in a parameter screen that ENTER in the menu has opened, the button is handed
\* up through the menu (ui.c:355-357, 294, 306-308, 240-242) and runs from there
UiStartStop ==
    /\ ui_pc \in {"menu", "param_entered"}
    /\ ui_events < MaxButtonEvents
    /\ ui_events' = ui_events + 1
    /\ ui_hist' = [ui_hist EXCEPT !.last = "start_stop"]
    /\ ui_bpm' = sequencer.bpm
    /\ ui_pc' = "set_bpm"
    /\ ctx' = "ui"
    /\ UNCHANGED <<sequencer, seq_pc, sub_block, pause_reg, render_cycles, voices,
                   heap_allocs>>
    /\ UNCHANGED <<pipeVars, synthHistory, unitVars>>

\* sequencer.c:92
UiSetBpmStoreBpm ==
    /\ ui_pc = "set_bpm"
    /\ sequencer' = [sequencer EXCEPT !.bpm = ui_bpm]
    /\ ui_pc' = "quarter"
    /\ ctx' = "ui"
    /\ UNCHANGED <<seq_pc, sub_block, pause_reg, render_cycles, ui_bpm, ui_events, ui_hist,
                   voices, heap_allocs>>
    /\ UNCHANGED <<pipeVars, synthHistory, unitVars>>

\* sequencer.c:93
UiSetBpmStoreQuarter ==
    /\ ui_pc = "quarter"
    /\ sequencer' = [sequencer EXCEPT !.durations[1] = QuarterOf(sequencer.bpm)]
    /\ ui_pc' = "eighth"
    /\ ctx' = "ui"
    /\ UNCHANGED <<seq_pc, sub_block, pause_reg, render_cycles, ui_bpm, ui_events, ui_hist,
                   voices, heap_allocs>>
    /\ UNCHANGED <<pipeVars, synthHistory, unitVars>>

\* sequencer.c:94
UiSetBpmStoreEighth ==
    /\ ui_pc = "eighth"
    /\ sequencer' = [sequencer EXCEPT !.durations[2] = HalfOf(sequencer.durations[1])]
    /\ ui_pc' = "sixteenth"
    /\ ctx' = "ui"
    /\ UNCHANGED <<seq_pc, sub_block, pause_reg, render_cycles, ui_bpm, ui_events, ui_hist,
                   voices, heap_allocs>>
    /\ UNCHANGED <<pipeVars, synthHistory, unitVars>>

\* sequencer.c:95
UiSetBpmStoreSixteenth ==
    /\ ui_pc = "sixteenth"
    /\ sequencer' = [sequencer EXCEPT !.durations[3] = HalfOf(sequencer.durations[2])]
    /\ ui_pc' = "menu"
    /\ ctx' = "ui"
    /\ UNCHANGED <<seq_pc, sub_block, pause_reg, render_cycles, ui_bpm, ui_events, ui_hist,
                   voices, heap_allocs>>
    /\ UNCHANGED <<pipeVars, synthHistory, unitVars>>

\* ui.c:241, 294: the parameter screen as ui_task and as the menu have opened it
ParamScreens == {"param", "param_entered"}

\* ui.c:355-357, 241: a command button pressed in a parameter screen that a
\* command button has opened; ui_task drops the event and shows the menu
UiCommandDropped ==
    /\ ui_pc = "param"
    /\ ui_events < MaxButtonEvents
    /\ ui_events' = ui_events + 1
    /\ ui_hist' = [ui_hist EXCEPT !.last = "dropped"]
    /\ ui_pc' = "menu"
    /\ ctx' = "ui"
    /\ UNCHANGED <<sequencer, seq_pc, sub_block, pause_reg, render_cycles, ui_bpm,
                   voices, heap_allocs>>
    /\ UNCHANGED <<pipeVars, synthHistory, unitVars>>

\* variant: only the upper limit is applied
ClampParamUpperOnly(value) == IF value > BpmMax THEN BpmMax ELSE value

\* ui.c:322-324: the limits applied when the screen is drawn again
ClampParam(value) == IF value < BpmMin THEN BpmMin
                     ELSE IF value > BpmMax THEN BpmMax ELSE value

\* ui.c:253 with main.c:129-139: the tempo button ("param", ui.c:241) or ENTER on
\* the tempo entry of the menu ("param_entered", ui.c:294) opens the parameter
\* screen (the command has no execute callback; its value callback is never
\* called); ui.c:322-324: the screen applies the limits when it is first drawn
UiOpenBpmScreen ==
    /\ ui_pc = "menu"
    /\ ui_events < MaxButtonEvents
    /\ sequencer' = [sequencer EXCEPT !.bpm = ClampParam(sequencer.bpm)]
    /\ ui_events' = ui_events + 1
    /\ ui_hist' = [last |-> "open", clamped |-> ClampParam(sequencer.bpm) # sequencer.bpm]
    /\ ui_pc' \in ParamScreens
    /\ ctx' = "ui"
    /\ UNCHANGED <<seq_pc, sub_block, pause_reg, render_cycles, ui_bpm, voices,
                   heap_allocs>>
    /\ UNCHANGED <<pipeVars, synthHistory, unitVars>>

\* ui.c:333-343, 322-324: the encoder changes the tempo parameter by one step
UiTurnEncoder ==
    /\ ui_pc \in ParamScreens
    /\ ui_events < MaxButtonEvents
    /\ ui_events' = ui_events + 1
    /\ \E step \in {BpmStep, -BpmStep} :
          /\ sequencer' = [sequencer EXCEPT !.bpm = ClampParam(sequencer.bpm + step)]
          /\ ui_hist' = [last |-> IF step > 0 THEN "increase" ELSE "decrease",
                         clamped |-> ClampParam(sequencer.bpm + step) # sequencer.bpm + step]
    /\ ctx' = "ui"
    /\ UNCHANGED <<seq_pc, sub_block, pause_reg, render_cycles, ui_pc, ui_bpm, voices,
                   heap_allocs>>
    /\ UNCHANGED <<pipeVars, synthHistory, unitVars>>

\* ui.c:345-347: the exit button closes the parameter screen
UiExit ==
    /\ ui_pc \in ParamScreens
    /\ ui_events < MaxButtonEvents
    /\ ui_events' = ui_events + 1
    /\ ui_hist' = [ui_hist EXCEPT !.last = "exit"]
    /\ ui_pc' = "menu"
    /\ ctx' = "ui"
    /\ UNCHANGED <<sequencer, seq_pc, sub_block, pause_reg, render_cycles, ui_bpm,
                   voices, heap_allocs>>
    /\ UNCHANGED <<pipeVars, synthHistory, unitVars>>

\* main.c:92-94: sequencer_new, sequencer_set_bpm(80), sequencer_set_running(true)
InitControlAt(bpm) ==
    /\ sequencer = sequencer_set_running(sequencer_set_bpm(sequencer_new, bpm), TRUE)
    /\ seq_pc = "wait"
    /\ sub_block = 0
    /\ pause_reg = 0
    /\ render_cycles = 0
    /\ ui_pc = "menu"
    /\ ui_bpm = bpm
    /\ ui_events = 0
    /\ ctx = "main"
    /\ ui_hist = [last |-> "none", clamped |-> FALSE]

InitControl == InitControlAt(InitialBpm)

\* main.c:93, 135-136: the tempo of start-up, and the two limits of the tempo
\* parameter, which a run of encoder turns and a press of Start/Stop arrive at
TempoStarts == {BpmMin, InitialBpm, BpmMax}

\* the control state with the tempo at the start-up value or at one of its limits
InitTempo == \E bpm \in TempoStarts : InitControlAt(bpm)

NextControl ==
    \/ WorkerTake
    \/ SeqNoteOffs
    \/ SeqPauseLoad
    \/ SeqPauseStore
    \/ SeqNewNote
    \/ WorkerSynthProcess
    \/ UiStartStop
    \/ UiSetBpmStoreBpm
    \/ UiSetBpmStoreQuarter
    \/ UiSetBpmStoreEighth
    \/ UiSetBpmStoreSixteenth
    \/ UiOpenBpmScreen
    \/ UiTurnEncoder
    \/ UiExit
    \/ UiCommandDropped

(***************************************************************************)
(* One note end to end: synth_note_on, rendered blocks, synth_note_off,    *)
(* rendered blocks (synth.c with dsp/adsr.c)                               *)
(***************************************************************************)
\* blocks rendered while the note is held
MaxHeldBlocks == 5
\* frames rendered after the note_off
MaxReleasedFrames == 8

\* synth.c:184: the frames of one synth_process over a sub-block
FramesPerBlock == (CONFIG_AUDIO_N_SAMPLES_CYCLE + 1) \div 2

\* main.c:62 with adsr.c:51: release_duration * sample_rate
ReleaseSamples == CONFIG_AUDIO_SAMPLE_RATE * Env1Config.release

\* the other variables, which the end-to-end run leaves alone
e2eFrame == <<pipeVars, synthHistory, controlVars, adsrVars, wtVars, sqVars, uiVars>>

\* synth.c:120-161: the note is played on the idle synthesizer
E2eNoteOn ==
    /\ e2e.pc = "idle"
    /\ \E note \in Notes, velocity \in Velocities, r \in RandDraws :
          /\ voices' = synth_note_on(voices, note, velocity, 0, r)
          /\ e2e' = [pc |-> "held", note |-> note, voice |-> SelectVoice(voices, note),
                     blocks |-> 0, frames |-> 0, level |-> 0, was_inactive |-> FALSE,
                     n_samples_processed |-> 0]
    /\ heap_allocs' = 0
    /\ UNCHANGED e2eFrame

\* synth.c:182-205: a block is rendered while the note is held
E2eRenderHeld ==
    /\ e2e.pc = "held"
    /\ e2e.blocks < MaxHeldBlocks
    /\ voices' = synth_process(voices, CONFIG_AUDIO_N_SAMPLES_CYCLE)
    /\ heap_allocs' = ProcessAllocs(pan_init, CONFIG_AUDIO_N_SAMPLES_CYCLE)
    /\ e2e' = [e2e EXCEPT !.blocks = @ + 1]
    /\ UNCHANGED e2eFrame

\* synth.c:168-176: the note is released after at least one rendered block
E2eNoteOff ==
    /\ e2e.pc = "held"
    /\ e2e.blocks >= 1
    /\ voices' = synth_note_off(voices, e2e.note)
    /\ heap_allocs' = 0
    /\ e2e' = [e2e EXCEPT !.pc = "released",
                          !.level = voices[e2e.voice].env1.state.value]
    /\ UNCHANGED e2eFrame

\* synth.c:182-205: a block is rendered after the note_off
E2eRenderReleased ==
    /\ e2e.pc = "released"
    /\ e2e.frames < MaxReleasedFrames
    /\ voices' = synth_process(voices, CONFIG_AUDIO_N_SAMPLES_CYCLE)
    /\ heap_allocs' = ProcessAllocs(pan_init, CONFIG_AUDIO_N_SAMPLES_CYCLE)
    /\ e2e' = [e2e EXCEPT !.frames = @ + FramesPerBlock,
                          !.was_inactive = @ \/ ~voices'[e2e.voice].active]
    /\ UNCHANGED e2eFrame

InitEndToEnd ==
    e2e = [pc |-> "idle", note |-> 0, voice |-> NullVoice, blocks |-> 0, frames |-> 0,
           level |-> 0, was_inactive |-> FALSE, n_samples_processed |-> 0]

NextEndToEnd ==
    \/ E2eNoteOn
    \/ E2eRenderHeld
    \/ E2eNoteOff
    \/ E2eRenderReleased

(***************************************************************************)
(* One note released at any time, rendered without end (synth.c, main.c)   *)
(***************************************************************************)
\* synth.c:168-176: the note is released, whether or not a block was rendered
\* since its note_on
ReleaseNoteOff ==
    /\ e2e.pc = "held"
    /\ voices' = synth_note_off(voices, e2e.note)
    /\ heap_allocs' = 0
    /\ e2e' = [e2e EXCEPT !.pc = "released",
                          !.level = voices[e2e.voice].env1.state.value]
    /\ UNCHANGED e2eFrame

\* main.c:181: n_samples_processed += CONFIG_AUDIO_N_SAMPLES_CYCLE, from 0 again
\* in the next render cycle
NextSubBlock(n_samples_processed) ==
    (n_samples_processed + CONFIG_AUDIO_N_SAMPLES_CYCLE) % CONFIG_AUDIO_N_SAMPLES_BUFFER

\* main.c:181-184: the worker renders the next sub-block, cycle after cycle
ReleaseRender ==
    /\ e2e.pc = "released"
    /\ voices' = synth_process(voices, CONFIG_AUDIO_N_SAMPLES_CYCLE)
    /\ heap_allocs' = ProcessAllocs(pan_init, CONFIG_AUDIO_N_SAMPLES_CYCLE)
    /\ e2e' = [e2e EXCEPT !.was_inactive = @ \/ ~voices'[e2e.voice].active,
                          !.n_samples_processed = NextSubBlock(@)]
    /\ UNCHANGED e2eFrame

\* main.c:174, 181: the worker's loops go on to the next sub-block; these are
\* the steps of ReleaseRender, told by the loop counter alone
WorkerAdvances ==
    /\ e2e.pc = "released"
    /\ \E was_inactive \in BOOLEAN :
          e2e' = [e2e EXCEPT !.was_inactive = was_inactive,
                             !.n_samples_processed = NextSubBlock(@)]

NextRelease ==
    \/ E2eNoteOn
    \/ E2eRenderHeld
    \/ ReleaseNoteOff
    \/ ReleaseRender

(***************************************************************************)
(* One envelope generator driven through its interface (dsp/adsr.c)        *)
(***************************************************************************)
\* ticks made on the envelope in one behaviour
MaxAdsrTicks == 10

\* adsr.c:39: the sample rates the envelope is set up for
AdsrSampleRates == {CONFIG_AUDIO_SAMPLE_RATE, 7}

\* adsr.h:36-41, main.c:57-71: times in seconds (zero included), the peak 1.0,
\* sustain levels from 0 to the peak
AdsrConfigs ==
    [attack : {0, 1}, peak : {EnvScale}, decay : {0, 1},
     sustain : {0, EnvScale \div 2, EnvScale}, release : {0, 1}]

\* the other variables, which the envelope on its own leaves alone
adsrFrame == <<pipeVars, synthVars, controlVars, e2eVars, wtVars, sqVars, uiVars>>

\* adsr.c:98-100
AdsrTriggerAttack ==
    /\ adsr_env' = dsp_adsr_trigger_attack(adsr_env)
    /\ adsr_h' = [adsr_h EXCEPT
                     !.fresh = (adsr_env.state.status = "STOPPED" /\ adsr_env.state.value = 0),
                     !.attack_ticks = 0,
                     !.released = FALSE,
                     !.last = "trigger_attack",
                     !.prev = adsr_env.state]
    /\ UNCHANGED adsrFrame

\* adsr.c:105-107
AdsrTriggerRelease ==
    /\ adsr_env' = dsp_adsr_trigger_release(adsr_env)
    /\ adsr_h' = [adsr_h EXCEPT
                     !.fresh = FALSE,
                     !.released = TRUE,
                     !.last = "trigger_release",
                     !.prev = adsr_env.state]
    /\ UNCHANGED adsrFrame

\* adsr.c:112-149
AdsrTick ==
    /\ adsr_h.ticks < MaxAdsrTicks
    /\ adsr_env' = dsp_adsr_tick(adsr_env)
    /\ adsr_h' = [adsr_h EXCEPT
                     !.ticks = @ + 1,
                     !.attack_ticks = IF adsr_env.state.status = "ATTACK" THEN @ + 1 ELSE @,
                     !.last = "tick",
                     !.returned = dsp_adsr_tick_return(adsr_env),
                     !.prev = adsr_env.state]
    /\ UNCHANGED adsrFrame

\* adsr.c:18-20, adsr.h:74-81: a new envelope with its values set
InitAdsr ==
    \E rate \in AdsrSampleRates, values \in AdsrConfigs :
        /\ adsr_env = dsp_adsr_set_values(dsp_adsr_new, rate, values)
        /\ adsr_h = [rate |-> rate, values |-> values, ticks |-> 0, attack_ticks |-> 0,
                     fresh |-> FALSE, released |-> FALSE, last |-> "init",
                     returned |-> 0, prev |-> dsp_adsr_new.state, parity |-> 0]

\* the envelope of the unit check while it is not in use
IdleAdsr ==
    /\ adsr_env = dsp_adsr_new
    /\ adsr_h = [rate |-> 0, values |-> Env1Config, ticks |-> 0, attack_ticks |-> 0,
                 fresh |-> FALSE, released |-> FALSE, last |-> "init",
                 returned |-> 0, prev |-> dsp_adsr_new.state, parity |-> 0]

(***************************************************************************)
(* adsr.c: one envelope released once and ticked without end               *)
(***************************************************************************)
\* adsr.c:98-100: a trigger_attack before the release
HeldTriggerAttack ==
    /\ ~adsr_h.released
    /\ AdsrTriggerAttack

\* adsr.c:112-149: a tick before the release
HeldTick ==
    /\ ~adsr_h.released
    /\ AdsrTick

\* adsr.c:105-107: the one trigger_release, in whatever stage the envelope is
HeldTriggerRelease ==
    /\ ~adsr_h.released
    /\ AdsrTriggerRelease

\* adsr.c:112-149: a tick after the release, as often as the caller likes;
\* parity tells one tick from the next
ReleasedTick ==
    /\ adsr_h.released
    /\ adsr_env' = dsp_adsr_tick(adsr_env)
    /\ adsr_h' = [adsr_h EXCEPT
                     !.last = "tick",
                     !.returned = dsp_adsr_tick_return(adsr_env),
                     !.prev = adsr_env.state,
                     !.parity = 1 - @]
    /\ UNCHANGED adsrFrame

NextAdsrRelease ==
    \/ HeldTriggerAttack
    \/ HeldTick
    \/ HeldTriggerRelease
    \/ ReleasedTick

(***************************************************************************)
(* adsr.c: the setters on one envelope                                     *)
(***************************************************************************)
\* times in seconds passed to the setters
SetterDurations == {0, 1, 2}
\* sustain levels passed to the setters
SetterLevels == {0, EnvScale \div 2, EnvScale}

\* one setter call made on the envelope
SetterCall(next_adsr, name) ==
    /\ adsr_env' = next_adsr
    /\ adsr_h' = [adsr_h EXCEPT !.last = name, !.prev = adsr_env.state]
    /\ UNCHANGED adsrFrame

\* adsr.c:58-63
AdsrSetAttack ==
    \E duration \in SetterDurations :
        SetterCall(dsp_adsr_set_attack(adsr_env, adsr_h.rate, duration), "set_attack")

\* adsr.c:68-73
AdsrSetDecay ==
    \E duration \in SetterDurations :
        SetterCall(dsp_adsr_set_decay(adsr_env, adsr_h.rate, duration), "set_decay")

\* adsr.c:78-82
AdsrSetSustain ==
    \E level \in SetterLevels :
        SetterCall(dsp_adsr_set_sustain(adsr_env, adsr_h.rate, level), "set_sustain")

\* adsr.c:88-93
AdsrSetRelease ==
    \E duration \in SetterDurations :
        SetterCall(dsp_adsr_set_release(adsr_env, adsr_h.rate, duration), "set_release")

\* adsr.h:81
AdsrSetValues ==
    \E values \in AdsrConfigs :
        SetterCall(dsp_adsr_set_values(adsr_env, adsr_h.rate, values), "set_values")

\* adsr.c:18-20: a new envelope, all fields zero, and the sample rate of the program
InitAdsrSetters ==
    \E rate \in AdsrSampleRates :
        /\ adsr_env = dsp_adsr_new
        /\ adsr_h = [rate |-> rate, values |-> Env1Config, ticks |-> 0,
                     attack_ticks |-> 0, fresh |-> FALSE, released |-> FALSE,
                     last |-> "init", returned |-> 0, prev |-> dsp_adsr_new.state, parity |-> 0]

NextAdsrSetters ==
    \/ AdsrSetAttack
    \/ AdsrSetDecay
    \/ AdsrSetSustain
    \/ AdsrSetRelease
    \/ AdsrSetValues

NextAdsr ==
    \/ AdsrTriggerAttack
    \/ AdsrTriggerRelease
    \/ AdsrTick

(***************************************************************************)
(* dsp/wavetable.c, dsp/wavetable.h: one wavetable on its own              *)
(***************************************************************************)
MaxWaveLength == 3
MaxWaveGuards == 2

\* wavetable.h:90: the float index, counted in quarters of a table position
IndexScale == 4

\* wavetable.c:15-16: the values sin and cos take at the sample points
WaveSampleValues == {0 - 1, 0, 1}

\* the other variables, which the wavetable on its own leaves alone
wtFrame == <<pipeVars, synthVars, controlVars, e2eVars, adsrVars, sqVars, uiVars>>

\* wavetable.h:90-96: one read at an index in [0, length)
WtRead ==
    /\ \E index \in 0 .. wt.table.length * IndexScale - 1 :
           wt' = [wt EXCEPT !.index = index,
                            !.value = dsp_wavetable_read2(wt.table, index, IndexScale),
                            !.read = TRUE]
    /\ UNCHANGED wtFrame

\* wavetable.c:36-53: a table of any length, guard count and sample values
InitWavetable ==
    \E length \in 1 .. MaxWaveLength, guards \in 1 .. MaxWaveGuards :
        \E func \in [0 .. length - 1 -> WaveSampleValues] :
            wt = [table |-> dsp_wavetable_new_custom(length, guards, func),
                  guards |-> guards, index |-> 0, value |-> 0, read |-> FALSE]

\* the wavetable check not in use
IdleWavetable ==
    wt = [table |-> Wavetable, guards |-> 1, index |-> 0, value |-> 0, read |-> FALSE]

NextWavetable == WtRead

(***************************************************************************)
(* sequencer.c: one sequencer on its own                                   *)
(***************************************************************************)
MaxSequencerCalls == 4

\* samples left of a note or of the pause at the start: none, expiring in the
\* first call, expiring in the second
SamplesLeft == {0, 1, CONFIG_AUDIO_N_SAMPLES_CYCLE + 1}

\* sequencer_pimpl_t.notes_playing with the first busy slots taken
SlotsTaken(busy, samples_remaining) ==
    [i \in Slots |-> IF i < busy THEN [note |-> NotesAvailable[1],
                                        samples_remaining |-> samples_remaining]
                      ELSE [note |-> 0, samples_remaining |-> 0]]

\* the other variables, which the sequencer on its own leaves alone
sqFrame == <<pipeVars, synthVars, controlVars, e2eVars, adsrVars, wtVars, uiVars>>

\* a pause that has run out and a slot that is free after the note-off loop
NoteDue(seq, n_samples_passed) ==
    /\ seq.pause_remaining - n_samples_passed <= 0
    /\ FreeSlots(AgeNotes(seq, n_samples_passed)) # {}

\* main.c:182: sequencer_process for one sub-block
SqProcess ==
    /\ sq.calls < MaxSequencerCalls
    /\ \E pause_duration \in 1 .. MAX_DURATION, note_duration \in 1 .. MAX_DURATION,
          note_index \in DOMAIN NotesAvailable :
          LET done == sequencer_process(sq.seq, CONFIG_AUDIO_N_SAMPLES_CYCLE,
                                        pause_duration, note_duration, note_index)
          IN sq' = [seq |-> done.seq,
                    calls |-> sq.calls + 1,
                    last |-> "process",
                    was_running |-> sq.seq.running,
                    was_due |-> NoteDue(sq.seq, CONFIG_AUDIO_N_SAMPLES_CYCLE),
                    note_on |-> done.note_on,
                    stopped_calls |-> IF sq.seq.running THEN 0 ELSE sq.stopped_calls + 1]
    /\ UNCHANGED sqFrame

\* sequencer.c:112-117
SqSetRunning ==
    /\ sq.calls < MaxSequencerCalls
    /\ \E running \in BOOLEAN :
          sq' = [sq EXCEPT !.seq = sequencer_set_running(sq.seq, running),
                           !.calls = @ + 1,
                           !.last = "set_running",
                           !.was_running = sq.seq.running,
                           !.was_due = FALSE,
                           !.note_on = FALSE,
                           !.stopped_calls = 0]
    /\ UNCHANGED sqFrame

\* a sequencer with any play state, pause and slots
InitSequencer ==
    \E running \in BOOLEAN, pause_remaining \in SamplesLeft \cup {0 - 1},
       busy \in 0 .. N_NOTES_PLAYING, samples_remaining \in SamplesLeft \ {0} :
        sq = [seq |-> [sequencer_set_bpm(sequencer_new, InitialBpm) EXCEPT
                          !.running = running,
                          !.pause_remaining = pause_remaining,
                          !.notes_playing = SlotsTaken(busy, samples_remaining)],
              calls |-> 0, last |-> "init", was_running |-> FALSE, was_due |-> FALSE,
              note_on |-> FALSE, stopped_calls |-> 0]

\* the sequencer check not in use
IdleSequencer ==
    sq = [seq |-> sequencer_new, calls |-> 0, last |-> "init", was_running |-> FALSE,
          was_due |-> FALSE, note_on |-> FALSE, stopped_calls |-> 0]

NextSequencer ==
    \/ SqProcess
    \/ SqSetRunning

(***************************************************************************)
(* sequencer.c: the sequencer from its start in app_main, with the calls   *)
(* of the control surface between the blocks                               *)
(***************************************************************************)
\* calls made on the sequencer in one behaviour
MaxRunCalls == 17
\* sequencer.c:146, 158: the outcomes of rand() % MAX_DURATION taken up, the
\* shortest pause and the shortest note
RunDurations == {MAX_DURATION}
\* sequencer.c:157: the outcomes of rand() % n_notes_available taken up
RunNoteIndexes == {1}
\* the tempos the control surface sets
RunTempos == {InitialBpm, BpmMax}

\* sequencer.c:153-167: the slots that were free and hold a note after the call
SlotsAssigned(before, after) ==
    {i \in Slots : /\ before.notes_playing[i].samples_remaining <= 0
                   /\ after.notes_playing[i].samples_remaining > 0}

\* main.c:182: sequencer_process for one sub-block, with the outcomes of rand()
\* drawn from durations, in a behaviour of at most max_calls calls
ProcessBlock(durations, max_calls) ==
    /\ sq.calls < max_calls
    /\ \E pause_duration \in durations, note_duration \in durations,
          note_index \in RunNoteIndexes :
          LET n_samples_passed == CONFIG_AUDIO_N_SAMPLES_CYCLE
              aged == AgeNotes(sq.seq, n_samples_passed)
              done == sequencer_process(sq.seq, n_samples_passed,
                                        pause_duration, note_duration, note_index)
              offs == NoteOffsIssued(sq.seq, n_samples_passed)
              news == SlotsAssigned(aged, done.seq)
          IN sq' = [seq |-> done.seq,
                    note_offs |-> offs,
                    offs_since |-> [i \in Slots |->
                                       IF i \in news THEN 0
                                       ELSE IF i \in offs THEN sq.offs_since[i] + 1
                                       ELSE sq.offs_since[i]],
                    taken |-> sq.taken \cup news,
                    calls |-> sq.calls + 1,
                    last |-> "process",
                    was_running |-> sq.seq.running,
                    was_expired |-> sq.seq.pause_remaining - n_samples_passed <= 0,
                    was_due |-> NoteDue(sq.seq, n_samples_passed),
                    note_on |-> done.note_on,
                    assigned |-> Cardinality(SlotsAssigned(aged, done.seq))]
    /\ UNCHANGED sqFrame

\* main.c:182
RunProcess == ProcessBlock(RunDurations, MaxRunCalls)

\* a call of the control surface between two blocks
RunControl(seq, name) ==
    /\ sq.calls < MaxRunCalls
    /\ sq' = [sq EXCEPT !.seq = seq,
                        !.calls = @ + 1,
                        !.last = name,
                        !.was_running = sq.seq.running,
                        !.was_expired = FALSE,
                        !.was_due = FALSE,
                        !.note_on = FALSE,
                        !.assigned = 0,
                        !.note_offs = {}]
    /\ UNCHANGED sqFrame

\* sequencer.c:112-117
RunSetRunning ==
    \E running \in BOOLEAN :
        RunControl(sequencer_set_running(sq.seq, running), "set_running")

\* sequencer.c:89-100
RunSetBpm ==
    \E bpm \in RunTempos :
        RunControl(sequencer_set_bpm(sq.seq, bpm), "set_bpm")

\* main.c:92-94: sequencer_new, sequencer_set_bpm(80), sequencer_set_running(true)
InitSequencerRun ==
    sq = [seq |-> sequencer_set_running(sequencer_set_bpm(sequencer_new, InitialBpm), TRUE),
          calls |-> 0, last |-> "init", was_running |-> FALSE, was_expired |-> FALSE,
          was_due |-> FALSE, note_on |-> FALSE, assigned |-> 0,
          note_offs |-> {}, offs_since |-> [i \in Slots |-> 0], taken |-> {}]

NextSequencerRun ==
    \/ RunProcess
    \/ RunSetRunning
    \/ RunSetBpm

(***************************************************************************)
(* sequencer.c: the sequencer running at one tempo                         *)
(***************************************************************************)
\* sequencer_process calls in one behaviour
MaxFixedCalls == 14
\* the tempo of start-up and the fastest tempo of the control surface
FixedTempos == {InitialBpm, BpmMax}

\* main.c:182, sequencer.c:146, 158: every duration can be drawn
FixedProcess == ProcessBlock(1 .. MAX_DURATION, MaxFixedCalls)

\* main.c:92-94 with the tempo at one of FixedTempos
InitSequencerFixed ==
    \E bpm \in FixedTempos :
        sq = [seq |-> sequencer_set_running(sequencer_set_bpm(sequencer_new, bpm), TRUE),
              calls |-> 0, last |-> "init", was_running |-> FALSE, was_expired |-> FALSE,
              was_due |-> FALSE, note_on |-> FALSE, assigned |-> 0,
              note_offs |-> {}, offs_since |-> [i \in Slots |-> 0], taken |-> {}]

NextSequencerFixed == FixedProcess

(***************************************************************************)
(* The worker's sub-blocks: sequencer_process, then synth_process          *)
(* (main.c:181-184 with sequencer.c and synth.c)                           *)
(***************************************************************************)
\* sub-blocks rendered in one behaviour while the sequencer is running
MaxPlayBlocks == 6
\* the tempo of the run: at CONFIG_AUDIO_SAMPLE_RATE samples per second the
\* three durations span several sub-blocks each
PlayTempo == 10
\* sequencer.c:147, 157: the durations drawn, the longest and the shortest
PlayDurations == {1, MAX_DURATION}
\* the velocities drawn for the notes of the run
PlayVelocities == {VelScale}

\* sequencer.c:92-94: the three durations at a sample rate and a tempo
DurationsAt(sample_rate, bpm) ==
    <<TruncDiv(sample_rate * 60, bpm),
      HalfOf(TruncDiv(sample_rate * 60, bpm)),
      HalfOf(HalfOf(TruncDiv(sample_rate * 60, bpm)))>>

\* the other variables, which the sub-blocks leave alone
playFrame == <<pipeVars, synthHistory, sequencer, seq_pc, pause_reg, render_cycles, ui_pc,
               ui_bpm, ui_events, ctx, ui_hist, e2eVars, adsrVars, wtVars, uiVars>>

\* main.c:182-183: one sub-block. sequencer_process ages the slots, calls
\* synth_note_off for the expired ones and, when running with the pause over,
\* synth_note_on for a new note; synth_process then renders the sub-block
SubBlock(pause_duration, note_duration, note_index, velocity, r, blocks) ==
    LET n_samples_passed == CONFIG_AUDIO_N_SAMPLES_CYCLE
        aged == AgeNotes(sq.seq, n_samples_passed)
        done == sequencer_process(sq.seq, n_samples_passed,
                                  pause_duration, note_duration, note_index)
        offs == NoteOffsIssued(sq.seq, n_samples_passed)
        news == SlotsAssigned(aged, done.seq)
        released == ReleaseExpired(voices, sq.seq, 0, n_samples_passed)
        played == IF done.note_on
                  THEN synth_note_on(released, NotesAvailable[note_index], velocity, 0, r)
                  ELSE released
    IN /\ voices' = synth_process(played, CONFIG_AUDIO_N_SAMPLES_CYCLE)
       /\ heap_allocs' = ProcessAllocs(pan_init, CONFIG_AUDIO_N_SAMPLES_CYCLE)
       /\ sub_block' = (sub_block + 1) % SubBlocks
       /\ sq' = [sq EXCEPT
                    !.seq = done.seq,
                    !.last = "block",
                    !.blocks = blocks,
                    !.reported = n_samples_passed,
                    !.rendered = FramesPerBlock,
                    !.duration = [i \in Slots |->
                                     IF i \in news
                                     THEN done.seq.notes_playing[i].samples_remaining
                                     ELSE @[i]],
                    !.frames = [i \in Slots |->
                                   IF i \in news THEN FramesPerBlock
                                   ELSE IF aged.notes_playing[i].samples_remaining > 0
                                        THEN @[i] + FramesPerBlock
                                        ELSE @[i]],
                    !.off_frames = [i \in Slots |->
                                       IF i \in news THEN 0 - 1
                                       ELSE IF i \in offs THEN sq.frames[i]
                                       ELSE @[i]],
                    !.note_offs = @ \cup offs,
                    !.released = @ \cup {v \in Voices : released[v] # voices[v]}]
       /\ UNCHANGED playFrame

\* a sub-block while the sequencer is running, with the outcomes of rand()
PlayBlock ==
    /\ ~sq.stopped
    /\ sq.blocks < MaxPlayBlocks
    /\ \E pause_duration \in PlayDurations, note_duration \in PlayDurations,
          note_index \in DOMAIN NotesAvailable, velocity \in PlayVelocities,
          r \in RandDraws :
          SubBlock(pause_duration, note_duration, note_index, velocity, r, sq.blocks + 1)

\* sequencer.c:112-117 with main.c:125-127: the control surface stops the sequencer
PlayStop ==
    /\ ~sq.stopped
    /\ sq' = [sq EXCEPT !.seq = sequencer_set_running(sq.seq, FALSE),
                        !.stopped = TRUE,
                        !.last = "stop",
                        !.sounding_at_stop =
                            {i \in Slots : sq.seq.notes_playing[i].samples_remaining > 0},
                        !.active_at_stop = {v \in Voices : voices[v].active},
                        !.stolen_at_stop =
                            {i \in Slots :
                                /\ sq.seq.notes_playing[i].samples_remaining > 0
                                /\ \A v \in Voices :
                                       voices[v].note # sq.seq.notes_playing[i].note},
                        !.note_offs = {},
                        !.released = {}]
    /\ UNCHANGED <<voices, heap_allocs, sub_block>>
    /\ UNCHANGED playFrame

\* a sub-block after the stop, as many as the worker renders; the outcomes of
\* rand() are not drawn (sequencer.c:142 returns before them)
StoppedBlock ==
    /\ sq.stopped
    /\ SubBlock(1, 1, 1, VelScale, 255, sq.blocks)

\* main.c:174, 181: the worker's loops go on to the next sub-block; these are
\* the steps of StoppedBlock, told by the loop counter alone
WorkerNextSubBlock ==
    /\ sq.stopped
    /\ sub_block' = (sub_block + 1) % SubBlocks

\* main.c:92-94: the sequencer after start-up, set to the tempo of the run at
\* the sample rate of the synthesizer
InitPlay ==
    sq = [seq |-> [sequencer_set_running(sequencer_set_bpm(sequencer_new, PlayTempo), TRUE)
                      EXCEPT !.durations = DurationsAt(CONFIG_AUDIO_SAMPLE_RATE, PlayTempo)],
          stopped |-> FALSE, blocks |-> 0, last |-> "init", reported |-> 0, rendered |-> 0,
          duration |-> [i \in Slots |-> 0], frames |-> [i \in Slots |-> 0],
          off_frames |-> [i \in Slots |-> 0 - 1], note_offs |-> {}, released |-> {},
          sounding_at_stop |-> {}, active_at_stop |-> {}, stolen_at_stop |-> {}]

NextPlay ==
    \/ PlayBlock
    \/ PlayStop
    \/ StoppedBlock

(***************************************************************************)
(* sequencer.c:158: the velocity of a new note                             *)
(***************************************************************************)
\* 1.0 as a velocity of the sequencer: two units for each of the 255 steps
VelocityScale == 2 * 255
\* stdlib.h: rand() returns 0 .. RAND_MAX
RAND_MAX == 2147483647
\* the outcomes of rand() the model draws: the first residues twice over and
\* the largest values
RandOutcomes == (0 .. 2 * 256 - 1) \cup {RAND_MAX - 256, RAND_MAX - 1, RAND_MAX}

\* variant: the residue divided by 256
RandVelocityBy256(r) == FDiv((r % 256) * VelocityScale, 256)

\* sequencer.c:158: (rand() % 256) / 255.0
RandVelocity(r) == FDiv((r % 256) * VelocityScale, 255)

\* sequencer.c:158, 166: the velocity of the note_on computed from the draw
VelocityDraw ==
    /\ sq.last = "rand"
    /\ sq' = [sq EXCEPT !.last = "note_on", !.velocity = RandVelocity(sq.rand)]
    /\ UNCHANGED sqFrame

\* sequencer.c:158: rand() has returned
InitVelocity ==
    \E r \in RandOutcomes : sq = [last |-> "rand", rand |-> r, velocity |-> 0]

NextVelocity == VelocityDraw

(***************************************************************************)
(* ui/ui.c: the control surface on its own, with the commands of main.c    *)
(***************************************************************************)
\* button and encoder events enqueued in one behaviour
MaxUiEvents == 4
\* ui.c:72: xQueueCreate(10, ...)
EventQueueLength == 10
\* 0.1f as a volume: the volume parameter counts in tenths
VolumeScale == 10

\* main.c:123-150: Start/Stop, Sequencer BPM, Master Volume; selection 0, 1, 2
main_commands ==
    <<[name |-> "Start/Stop", execute |-> TRUE, value |-> FALSE, param |-> FALSE,
       min |-> 0, max |-> 0, step |-> 0],
      [name |-> "Sequencer BPM", execute |-> FALSE, value |-> TRUE, param |-> TRUE,
       min |-> BpmMin, max |-> BpmMax, step |-> BpmStep],
      [name |-> "Master Volume", execute |-> FALSE, value |-> FALSE, param |-> TRUE,
       min |-> 0, max |-> VolumeScale, step |-> 1]>>

n_commands == Len(main_commands)
Commands == 0 .. n_commands - 1
Command(cmd) == main_commands[cmd + 1]

\* ui.c:30-38, 176, 188, 201: the events the interrupt handlers post
ButtonEvents ==
    [btn : {"ENTER", "EXIT", "HOME", "INCREASE", "DECREASE"}, cmd : {0 - 1}]
    \cup [btn : {"COMMAND"}, cmd : Commands]

\* ui.c:322-324: the limits of the command's parameter
ClampTo(cmd, value) ==
    IF value < Command(cmd).min THEN Command(cmd).min
    ELSE IF value > Command(cmd).max THEN Command(cmd).max ELSE value

\* ui.c:272-273: the selection wraps around
WrapSelection(selection) ==
    IF selection < 0 THEN n_commands - 1
    ELSE IF selection > n_commands - 1 THEN 0 ELSE selection

\* ui.c:250-257: the execute callback, then the parameter screen, whose first
\* drawing applies the limits (ui.c:322-324); caller is the function the
\* screen returns to
execute_command(u, cmd, caller) ==
    LET called == [u EXCEPT !.ran = Append(@, cmd),
                            !.callbacks = IF Command(cmd).execute
                                          THEN Append(@, "execute") ELSE @]
    IN IF Command(cmd).param
       THEN [called EXCEPT !.screen = "param", !.cmd = cmd, !.caller = caller,
                           !.values[cmd] = ClampTo(cmd, @)]
       ELSE called

\* ui.c:236-244: screen_menu has returned event to ui_task, which runs a command
\* event and calls screen_menu again: the selection starts at 0; the event that
\* execute_command returns is not looked at
ui_task(u, event) ==
    LET home == [u EXCEPT !.screen = "menu", !.selection = 0, !.cmd = 0 - 1,
                          !.caller = "task"]
    IN IF event.btn = "COMMAND" THEN execute_command(home, event.cmd, "task") ELSE home

\* ui.c:262-312: one event in the menu screen
screen_menu(u, event) ==
    CASE event.btn = "INCREASE" -> [u EXCEPT !.selection = WrapSelection(@ + 1)]
      [] event.btn = "DECREASE" -> [u EXCEPT !.selection = WrapSelection(@ - 1)]
      [] event.btn = "ENTER" -> execute_command(u, u.selection, "menu")
      [] event.btn = "EXIT" -> ui_task(u, [btn |-> "NONE", cmd |-> 0 - 1])
      [] OTHER -> ui_task(u, event)

\* ui.c:317-360: one event in the parameter screen; an event for the parents
\* goes to the caller of execute_command, the menu hands it on to ui_task
\* (ui.c:294, 306-308), ui_task drops it (ui.c:241)
screen_parameter(u, event) ==
    LET back == IF u.caller = "menu"
                THEN [u EXCEPT !.screen = "menu", !.cmd = 0 - 1, !.caller = "task"]
                ELSE ui_task(u, [btn |-> "NONE", cmd |-> 0 - 1])
    IN CASE event.btn = "INCREASE" ->
              [u EXCEPT !.values[u.cmd] = ClampTo(u.cmd, @ + Command(u.cmd).step)]
         [] event.btn = "DECREASE" ->
              [u EXCEPT !.values[u.cmd] = ClampTo(u.cmd, @ - Command(u.cmd).step)]
         [] event.btn = "EXIT" -> back
         [] event.btn = "ENTER" -> u
         [] OTHER -> IF u.caller = "menu" THEN screen_menu(back, event)
                     ELSE ui_task(u, [btn |-> "NONE", cmd |-> 0 - 1])

\* the other variables, which the control surface on its own leaves alone
uiFrame == <<pipeVars, synthVars, controlVars, e2eVars, adsrVars, wtVars, sqVars>>

\* ui.c:174-205: an interrupt handler posts an event
UiPost ==
    /\ ui.events < MaxUiEvents
    /\ Len(ui.queue) < EventQueueLength
    /\ \E event \in ButtonEvents :
          ui' = [ui EXCEPT !.queue = Append(@, event), !.events = @ + 1]
    /\ UNCHANGED uiFrame

\* ui.c:223-228, 279, 331: the screen shown takes the next event and handles it
UiHandle ==
    /\ ui.queue # <<>>
    /\ LET event == Head(ui.queue)
           taken == [ui EXCEPT !.queue = Tail(@), !.last = event,
                               !.before = [screen |-> ui.screen, selection |-> ui.selection,
                                           cmd |-> ui.cmd, caller |-> ui.caller,
                                           values |-> ui.values],
                               !.ran = <<>>, !.callbacks = <<>>]
       IN ui' = IF ui.screen = "menu" THEN screen_menu(taken, event)
                ELSE screen_parameter(taken, event)
    /\ UNCHANGED uiFrame

\* ui.c:238: screen_menu(&config.main_menu) with an empty queue; main.c:93, 54:
\* bpm 80, volume 1.0
InitUi ==
    ui = [queue |-> <<>>, events |-> 0, screen |-> "menu", selection |-> 0,
          cmd |-> 0 - 1, caller |-> "task",
          values |-> [cmd \in Commands |-> IF cmd = 1 THEN InitialBpm
                                           ELSE IF cmd = 2 THEN VolumeScale ELSE 0],
          last |-> [btn |-> "NONE", cmd |-> 0 - 1],
          before |-> [screen |-> "menu", selection |-> 0, cmd |-> 0 - 1, caller |-> "task",
                      values |-> [cmd \in Commands |-> 0]],
          ran |-> <<>>, callbacks |-> <<>>]

\* the control-surface check not in use
IdleUi ==
    ui = [queue |-> <<>>, events |-> 0, screen |-> "menu", selection |-> 0,
          cmd |-> 0 - 1, caller |-> "task", values |-> [cmd \in Commands |-> 0],
          last |-> [btn |-> "NONE", cmd |-> 0 - 1],
          before |-> [screen |-> "menu", selection |-> 0, cmd |-> 0 - 1, caller |-> "task",
                      values |-> [cmd \in Commands |-> 0]],
          ran |-> <<>>, callbacks |-> <<>>]

NextUi ==
    \/ UiPost
    \/ UiHandle

vars == <<pipeVars, synthVars, controlVars, unitVars>>

\* the state after app_main
InitProgram == InitPipeline /\ InitSynth /\ InitControl /\ InitEndToEnd

\* the state after app_main, with the unit checks not in use
Init == InitProgram /\ IdleAdsr /\ IdleWavetable /\ IdleSequencer /\ IdleUi

\* the interrupt handler and the worker; the rendered samples are taken as any mix
SpecPipeline == Init /\ [][NextPipeline]_vars

\* the calls on the synthesizer: note_on, note_off and the rendering of sub-blocks
SpecSynth == Init /\ [][NextSynth]_vars

\* the worker's sequencer and synthesizer calls against the control-surface task
SpecControl == Init /\ [][NextControl]_vars

\* one note from note_on to the end of its release
SpecEndToEnd == Init /\ [][NextEndToEnd]_vars

\* the worker against the control-surface task, the tempo starting at a limit too
InitSpecTempo ==
    /\ InitPipeline /\ InitSynth /\ InitTempo /\ InitEndToEnd
    /\ IdleAdsr /\ IdleWavetable /\ IdleSequencer /\ IdleUi

SpecTempo == InitSpecTempo /\ [][NextControl]_vars

\* one envelope: trigger_attack, trigger_release and tick in any order
InitSpecAdsr == InitProgram /\ InitAdsr /\ IdleWavetable /\ IdleSequencer /\ IdleUi

SpecAdsr == InitSpecAdsr /\ [][NextAdsr]_vars

\* one envelope released once; synth_process (synth.c:186-187) ticks it in every
\* frame the worker renders
SpecAdsrRelease == InitSpecAdsr /\ [][NextAdsrRelease]_vars /\ WF_vars(ReleasedTick)

\* one envelope: created, then configured by any sequence of setter calls
InitSpecAdsrSetters == InitProgram /\ InitAdsrSetters /\ IdleWavetable /\ IdleSequencer /\ IdleUi

SpecAdsrSetters == InitSpecAdsrSetters /\ [][NextAdsrSetters]_vars

\* one wavetable: construction, then reads at any index inside the table
InitSpecWavetable == InitProgram /\ IdleAdsr /\ InitWavetable /\ IdleSequencer /\ IdleUi

SpecWavetable == InitSpecWavetable /\ [][NextWavetable]_vars

\* one sequencer: sequencer_process and sequencer_set_running in any order
InitSpecSequencer == InitProgram /\ IdleAdsr /\ IdleWavetable /\ InitSequencer /\ IdleUi

SpecSequencer == InitSpecSequencer /\ [][NextSequencer]_vars

\* the sequencer as app_main starts it: blocks and control-surface calls
InitSpecSequencerRun == InitProgram /\ IdleAdsr /\ IdleWavetable /\ InitSequencerRun /\ IdleUi

SpecSequencerRun == InitSpecSequencerRun /\ [][NextSequencerRun]_vars

\* the sequencer running at one tempo, block after block
InitSpecSequencerFixed ==
    InitProgram /\ IdleAdsr /\ IdleWavetable /\ InitSequencerFixed /\ IdleUi

SpecSequencerFixed == InitSpecSequencerFixed /\ [][NextSequencerFixed]_vars

\* the velocity of a new note for the outcomes of rand()
InitSpecVelocity == InitProgram /\ IdleAdsr /\ IdleWavetable /\ InitVelocity /\ IdleUi

SpecVelocity == InitSpecVelocity /\ [][NextVelocity]_vars

\* the worker's sub-blocks with the sequencer running and then stopped; the
\* worker's loop (main.c:173-196) never stops rendering
InitSpecPlay == InitProgram /\ IdleAdsr /\ IdleWavetable /\ InitPlay /\ IdleUi

SpecPlay == InitSpecPlay /\ [][NextPlay]_vars /\ WF_sub_block(WorkerNextSubBlock)

\* the control surface: events posted by the interrupt handlers, handled by the screens
InitSpecUi == InitProgram /\ IdleAdsr /\ IdleWavetable /\ IdleSequencer /\ InitUi

SpecUi == InitSpecUi /\ [][NextUi]_vars

\* one note released at any time; the worker's loop (main.c:173-196) never
\* stops rendering
SpecRelease == Init /\ [][NextRelease]_vars /\ WF_e2e(WorkerAdvances)

(***************************************************************************)
(* Claims about the audio pipeline, checked under SpecPipeline             *)
(***************************************************************************)
\* C1: the handoff holds at most one pending notification. Every notification
\* sent is either taken by exactly one render cycle, overwritten before it was
\* taken, or the single one still pending; once the interrupt has returned, the
\* shared descriptor is the one of the newest interrupt; and the worker never
\* uses a field older than the newest descriptor that was pending when it took.
C1_SingleSlotNewestKept ==
    /\ notify_value \in {0, BufferAddr}
    /\ notify_total = render_count + notify_dropped
                      + (IF notify_value # 0 THEN 1 ELSE 0)
    /\ (isr_pc = "idle" /\ isr_count > 0) =>
          /\ audiohw_buffer = [size |-> isr_event.size, data |-> isr_event.dma_buf]
          /\ desc_irq = [size |-> isr_count, data |-> isr_count]
    /\ \A f \in tx_copied : tx_irq[f] >= taken_irq

\* C1 witness: two interrupts fired before the worker took; it took once and
\* renders with the descriptor of the newest of them
C1_Witness ==
    /\ taken_k >= 2
    /\ render_count = 1
    /\ dsp_pc = "render"
    /\ tx_irq = [size |-> taken_irq, data |-> taken_irq]
    /\ notify_value = 0

\* C2: every descriptor is consumed at most once and never rendered again: the
\* render cycles started never exceed the interrupts fired, nor the notifications
\* that were not overwritten (no catch-up cycle after an overrun), no two render
\* cycles use the descriptor of the same interrupt, and without an overrun the
\* cycles render the periods 1, 2, ... once each.
C2_EachDescriptorOnce ==
    /\ render_count <= isr_count
    /\ render_count <= notify_total - notify_dropped
    /\ \A i, j \in DOMAIN rendered : i # j => rendered[i] # rendered[j]
    /\ ~overrun => rendered = [i \in 1 .. Len(rendered) |-> i]

\* C2, the counting part alone (it holds)
C2_CountsOnly ==
    /\ render_count <= isr_count
    /\ render_count <= notify_total - notify_dropped
    /\ ~overrun => rendered = [i \in 1 .. Len(rendered) |-> i]

C4_PcmInRange ==
    \A i \in DOMAIN pcm_out.samples :
        pcm_out.samples[i] >= -PcmFullScale /\ pcm_out.samples[i] <= PcmFullScale

\* C4 witness: one cycle quantised a sample above 1.0 to 32767, a sample below
\* -1.0 to -32767, and a sample inside the range to a value in between
C4_Witness ==
    /\ \E i \in DOMAIN pcm_out.samples :
          dsp_buffer[i] > SampleScale /\ pcm_out.samples[i] = PcmFullScale
    /\ \E i \in DOMAIN pcm_out.samples :
          dsp_buffer[i] < -SampleScale /\ pcm_out.samples[i] = -PcmFullScale
    /\ \E i \in DOMAIN pcm_out.samples :
          /\ dsp_buffer[i] > 0 /\ dsp_buffer[i] < SampleScale
          /\ pcm_out.samples[i] > 0 /\ pcm_out.samples[i] < PcmFullScale

(***************************************************************************)
(* Claims about the worker and the control surface                         *)
(***************************************************************************)
\* the state the render path works on
RuntimeState ==
    <<sequencer.pause_remaining, sequencer.durations, sequencer.notes_playing, voices>>

\* C5: while a render cycle is in progress only the worker writes the
\* sequencer's and the voices' runtime state: every step that changes it
\* during rendering is a step of the worker.
C5_OnlyWorkerWritesWhileRendering ==
    [][(seq_pc # "wait" /\ RuntimeState' # RuntimeState) => ctx' = "dsp"]_vars

\* C5, the part on lost updates: between the load and the store of
\* pause_remaining -= n no other context has changed pause_remaining
C5_NoLostPauseUpdate ==
    seq_pc = "pause_store" => pause_reg = sequencer.pause_remaining

(***************************************************************************)
(* Claims about the synthesizer                                            *)
(***************************************************************************)
\* C6: after initialization no operation on the render path and no
\* note_on/note_off call allocates heap memory: no call made after start-up
\* performs a malloc.
C6_NoAllocAfterInit == heap_allocs = 0

\* the opening run of note_on calls is unbroken by note_off and its pitches differ
OpeningRun ==
    /\ Len(on_hist) > 0
    /\ \A i \in DOMAIN on_hist : on_hist[i].valid
    /\ \A i, j \in DOMAIN on_hist : i # j => on_hist[i].note # on_hist[j].note

\* the calls of the run that took a voice an earlier call of the run had taken
Steals == {i \in DOMAIN on_hist : \E j \in 1 .. i - 1 : on_hist[j].voice = on_hist[i].voice}

\* C7: from an idle synth, polyphony + 1 consecutive note_on calls for distinct
\* pitches without a note_off put the first polyphony pitches on distinct voices
\* and steal exactly one voice for the last; never more than polyphony voices
\* are active.
C7_DistinctVoicesOneSteal ==
    /\ Cardinality({i \in Voices : voices[i].active}) <= CONFIG_SYNTH_POLYPHONY
    /\ OpeningRun =>
          /\ \A i, j \in DOMAIN on_hist :
                (i # j /\ i <= CONFIG_SYNTH_POLYPHONY /\ j <= CONFIG_SYNTH_POLYPHONY)
                    => on_hist[i].voice # on_hist[j].voice
          /\ Len(on_hist) = CONFIG_SYNTH_POLYPHONY + 1 =>
                Steals = {CONFIG_SYNTH_POLYPHONY + 1}

\* C7, restricted to runs in which synth_process ran before every call but the
\* first (the active flags are up to date at every call)
C7_WithRenderBetween ==
    (OpeningRun /\ \A i \in DOMAIN on_hist : i > 1 => on_hist[i].rendered_before) =>
          /\ \A i, j \in DOMAIN on_hist :
                (i # j /\ i <= CONFIG_SYNTH_POLYPHONY /\ j <= CONFIG_SYNTH_POLYPHONY)
                    => on_hist[i].voice # on_hist[j].voice
          /\ Len(on_hist) = CONFIG_SYNTH_POLYPHONY + 1 =>
                Steals = {CONFIG_SYNTH_POLYPHONY + 1}

C7_FullRunWithRenders ==
    /\ OpeningRun
    /\ Len(on_hist) = CONFIG_SYNTH_POLYPHONY + 1
    /\ \A i \in DOMAIN on_hist : i > 1 => on_hist[i].rendered_before

\* the voices that hold a note
Holders(vs, note) == {i \in Voices : vs[i].note = note}

\* C8: a voice whose stored note is the requested one is preferred to a free
\* voice and to stealing: when some voice holds the note, note_on selects a
\* holder, the set of holders does not grow, and a note whose voice is still
\* active gets that same voice again.
C8_RetriggerPriority ==
    last_op.op = "note_on" =>
        LET held == Holders(pre_voices, last_op.note)
            w == last_op.prev_owner
        IN /\ held # {} =>
                /\ last_op.voice \in held
                /\ Holders(voices, last_op.note) = held
           /\ (w # NullVoice /\ w \in held /\ pre_voices[w].active) => last_op.voice = w

\* a note is played again while its voice is active and another voice is free
C8_Witness ==
    /\ last_op.op = "note_on"
    /\ last_op.prev_owner # NullVoice
    /\ pre_voices[last_op.prev_owner].note = last_op.note
    /\ pre_voices[last_op.prev_owner].active
    /\ last_op.voice = last_op.prev_owner
    /\ \E i \in Voices : ~pre_voices[i].active

\* C9: note_on is never rejected: whatever the voices are doing, the call
\* selects exactly one existing voice, stores note and velocity on it and leaves
\* both of its envelopes in the attack segment.
C9_NeverRejected ==
    last_op.op = "note_on" =>
        /\ last_op.voice \in Voices
        /\ voices[last_op.voice].note = last_op.note
        /\ voices[last_op.voice].velocity = last_op.velocity
        /\ voices[last_op.voice].env1.state.status = "ATTACK"
        /\ voices[last_op.voice].env2.state.status = "ATTACK"
        /\ \A i \in Voices \ {last_op.voice} : voices[i] = pre_voices[i]

\* a note is played while every voice is active and none holds the note
C9_Witness ==
    /\ last_op.op = "note_on"
    /\ \A i \in Voices : pre_voices[i].active
    /\ Holders(pre_voices, last_op.note) = {}
    /\ last_op.voice \in Voices
    /\ voices[last_op.voice].note = last_op.note

\* C10: note_off puts the carrier envelope of every active voice with the
\* note into the release segment and changes nothing else.
C10_NoteOffFrame ==
    last_op.op = "note_off" =>
        \A i \in Voices :
            voices[i] = IF pre_voices[i].note = last_op.note /\ pre_voices[i].active
                        THEN [pre_voices[i] EXCEPT !.env1.state.status = "RELEASE"]
                        ELSE pre_voices[i]

\* a note_off released one voice and left another one alone
C10_Witness ==
    /\ last_op.op = "note_off"
    /\ \E i \in Voices :
          /\ pre_voices[i].note = last_op.note
          /\ pre_voices[i].active
          /\ pre_voices[i].env1.state.status # "RELEASE"
          /\ voices[i].env1.state.status = "RELEASE"
    /\ \E j \in Voices : pre_voices[j].active /\ pre_voices[j].note # last_op.note

(***************************************************************************)
(* Claims about one note end to end                                        *)
(***************************************************************************)
\* C11: after note_on, rendered blocks and note_off, the voice stays active
\* until release_duration * sample_rate further frames are rendered, to within
\* one block, then is inactive in every later block.
C11_ActiveForReleaseTime ==
    e2e.pc = "released" =>
        /\ e2e.frames < ReleaseSamples - FramesPerBlock => voices[e2e.voice].active
        /\ e2e.frames >= ReleaseSamples + FramesPerBlock => ~voices[e2e.voice].active
        /\ e2e.was_inactive => ~voices[e2e.voice].active

\* C11 as the code has it: the release falls by the release increment per frame
\* from the level at which note_off found the envelope, so the voice is active
\* for level / -increment frames
C11_ActiveForLevelOverRate ==
    e2e.pc = "released" =>
        LET dec == -(voices[e2e.voice].env1.envelope.release.increment)
        IN /\ e2e.frames * dec < e2e.level => voices[e2e.voice].active
           /\ (e2e.frames > 0 /\ e2e.frames * dec >= e2e.level)
                 => ~voices[e2e.voice].active
           /\ e2e.was_inactive => ~voices[e2e.voice].active

\* a release from the peak is still sounding after the release time and one block
C11_LongRelease ==
    /\ e2e.pc = "released"
    /\ e2e.level = Env1Config.peak
    /\ e2e.frames >= ReleaseSamples + FramesPerBlock
    /\ voices[e2e.voice].active

(***************************************************************************)
(* Claims about the envelope generator                                     *)
(***************************************************************************)
\* adsr.c:43: attack_duration * sample_rate
AttackSamples == adsr_h.rate * adsr_h.values.attack

\* a run that began with trigger_attack on a stopped envelope at value 0
FreshTick == adsr_h.fresh /\ adsr_h.last = "tick"

\* C12, first part: the attack is over within attack_duration * sample_rate ticks
C12_AttackInTime ==
    (adsr_h.fresh /\ adsr_h.attack_ticks >= 1 /\ adsr_h.attack_ticks >= AttackSamples)
        => adsr_env.state.status # "ATTACK"

\* C12, second part: the attack ends on exactly the attack target
C12_AttackEndsAtTarget ==
    (FreshTick /\ adsr_h.prev.status = "ATTACK" /\ adsr_env.state.status # "ATTACK")
        => adsr_env.state.value = adsr_env.envelope.attack.value

\* C12, third part: in the decay the value does not rise and stays at or above
\* the sustain level
C12_DecayMonotone ==
    (FreshTick /\ adsr_h.prev.status = "DECAY")
        => /\ FLe(adsr_env.state.value, adsr_h.prev.value)
           /\ FGe(adsr_env.state.value, adsr_env.envelope.sustain)

\* C12: from a stopped envelope at value 0, trigger_attack and repeated ticks
\* bring the value to exactly the attack target within
\* ceil(attack_duration * sample_rate) ticks; from then on until the sustain
\* stage the value never rises and never passes below the sustain level.
C12_AttackThenDecay ==
    /\ C12_AttackInTime
    /\ C12_AttackEndsAtTarget
    /\ C12_DecayMonotone

\* C13: after trigger_release and with no later trigger_attack the value never
\* increases from one tick to the next, and the status becomes STOPPED on
\* exactly the tick at which the value reaches <= 0, the value then being 0.
C13_ReleaseFallsStopsAtZero ==
    (adsr_h.released /\ adsr_h.last = "tick") =>
        LET next_value == FAdd(adsr_h.prev.value, adsr_env.envelope.release.increment)
        IN /\ ~FLt(adsr_h.prev.value, adsr_env.state.value)
           /\ adsr_h.prev.status = "RELEASE" =>
                 IF FLe(next_value, 0)
                 THEN adsr_env.state = [status |-> "STOPPED", value |-> 0]
                 ELSE adsr_env.state = [status |-> "RELEASE", value |-> next_value]
           /\ adsr_h.prev.status = "STOPPED" => adsr_env.state = adsr_h.prev

\* a release from a positive level has taken more than one tick and has just stopped
C13_Witness ==
    /\ adsr_h.released
    /\ adsr_h.last = "tick"
    /\ adsr_h.prev.status = "RELEASE"
    /\ FLt(0, adsr_h.prev.value)
    /\ FLt(adsr_h.prev.value, adsr_env.envelope.sustain)
    /\ adsr_env.state = [status |-> "STOPPED", value |-> 0]

\* a number that is neither an infinity nor NaN
IsFinite(x) == ~IsNaN(x) /\ ~IsInf(x)

\* C14: a segment configured with zero duration never divides by zero: the
\* increments of attack, decay and release are all finite numbers.
C14_IncrementsFinite ==
    /\ IsFinite(adsr_env.envelope.attack.increment)
    /\ IsFinite(adsr_env.envelope.decay.increment)
    /\ IsFinite(adsr_env.envelope.release.increment)

(***************************************************************************)
(* Claims about the oscillators and the wavetable                          *)
(***************************************************************************)
\* an index that names a position of the table: a number in [0, length)
InTable(index) ==
    /\ ~IsNaN(index)
    /\ ~IsInf(index)
    /\ 0 <= index
    /\ index < Wavetable.length

\* C15: after every dsp_oscil_reinit and every dsp_oscil_tick the index of each
\* oscillator of each voice is a number in [0, wavetable length).
C15_PhaseInTable ==
    \A j \in Voices :
        /\ InTable(voices[j].osc1.index)
        /\ InTable(voices[j].osc2.index)
        /\ InTable(voices[j].lfo1.index)

\* C15 for the oscillators that get no modulator sample: the FM modulator and the
\* LFO stay inside the table
C15_UnmodulatedInTable ==
    \A j \in Voices :
        /\ InTable(voices[j].osc2.index)
        /\ InTable(voices[j].lfo1.index)

\* the reads of the synth_process that has just run
LastProcessReads == ProcessReads(pre_voices, 0, CONFIG_AUDIO_N_SAMPLES_CYCLE)

\* a read whose index is a number in [0, table length)
ReadInTable(r) ==
    /\ ~IsNaN(r.index)
    /\ ~IsInf(r.index)
    /\ 0 <= r.index
    /\ r.index < Wavetable.length * r.scale

\* C16: every index passed to dsp_wavetable_read2 during rendering is in
\* [0, table length), for the three oscillators and for the panner.
C16_ReadsInTable ==
    last_op.op = "process" => \A r \in LastProcessReads : ReadInTable(r)

\* C16 for the oscillators without modulator input alone
C16_UnmodulatedReadsInTable ==
    last_op.op = "process" =>
        \A r \in LastProcessReads : r.caller \in {"osc2", "lfo1"} => ReadInTable(r)

\* C16 for the panner alone
C16_PanReadsInTable ==
    last_op.op = "process" =>
        \A r \in LastProcessReads : r.caller = "pan" => ReadInTable(r)

\* the stored samples of the table, guard points included
StoredSamples == {wt.table.samples[i] : i \in DOMAIN wt.table.samples}

\* C17: in a table of length L with g >= 1 guard points samples[L + i] = samples[i]
\* for all i < g, a read at index 0 returns samples[0], and a read at any index in
\* [0, L) returns a value between the smallest and the largest stored sample.
C17_GuardsAndInterpolation ==
    /\ \A i \in 0 .. wt.guards - 1 :
           wt.table.samples[wt.table.length + i] = wt.table.samples[i]
    /\ dsp_wavetable_read2(wt.table, 0, IndexScale) = wt.table.samples[0] * IndexScale
    /\ wt.read => \A lo, hi \in StoredSamples :
                      (/\ \A x \in StoredSamples : lo <= x /\ x <= hi)
                          => /\ lo * IndexScale <= wt.value
                             /\ wt.value <= hi * IndexScale

\* a read between the last sample and the first guard point, which differ
C17_Witness ==
    /\ wt.read
    /\ wt.index > (wt.table.length - 1) * IndexScale
    /\ wt.table.samples[wt.table.length - 1] = 1
    /\ wt.table.samples[0] = 0 - 1
    /\ wt.value < IndexScale
    /\ wt.value > 0 - IndexScale

(***************************************************************************)
(* Claims about the sequencer                                              *)
(***************************************************************************)
\* C18: a sequencer_process call made while running is false issues no
\* synth_note_on, whatever the pause left and the state of the note slots.
C18_StoppedIssuesNoNoteOn ==
    (sq.last = "process" /\ ~sq.was_running) => ~sq.note_on

\* the second of two calls in a row on a stopped sequencer whose pause has run
\* out and which has a free slot
C18_Witness ==
    /\ sq.last = "process"
    /\ ~sq.was_running
    /\ sq.was_due
    /\ sq.stopped_calls >= 2

(***************************************************************************)
(* Claims about the tempo                                                  *)
(***************************************************************************)
\* sequencer.c:92-95: the three durations are the ones of the sequencer's bpm
DurationsMatchBpm ==
    sequencer.durations = <<QuarterOf(sequencer.bpm), HalfOf(QuarterOf(sequencer.bpm)),
                            HalfOf(HalfOf(QuarterOf(sequencer.bpm)))>>

\* the worker is inside sequencer_process
InSequencerProcess == seq_pc \in {"note_offs", "pause_load", "pause_store", "new_note"}

\* the control-surface task is inside sequencer_set_bpm
InSetBpm == ui_pc \in {"set_bpm", "quarter", "eighth", "sixteenth"}

\* C19: in every state in which sequencer_process runs, the durations are the
\* ones of the current bpm: quarter = sample_rate * 60 / bpm, eighth = quarter / 2,
\* sixteenth = eighth / 2.
C19_DurationsMatchTempo == InSequencerProcess => DurationsMatchBpm

\* C19 outside the calls of sequencer_set_bpm, whose stores the worker may see
\* one by one
C19_MatchOutsideSetBpm == (InSequencerProcess /\ ~InSetBpm) => DurationsMatchBpm

\* C19 for sequencer_set_bpm alone: when the call returns, the durations are the
\* ones of the bpm
C19_MatchAfterSetBpm ==
    (ui_hist.last = "start_stop" /\ ui_pc = "menu") => DurationsMatchBpm

CarrierStopped(voice) == voice.env1.state = [status |-> "STOPPED", value |-> 0]

\* the frames of the synth_process that has just run, added to a zeroed buffer
LastProcessFrames == ProcessFrames(pre_voices, 0, CONFIG_AUDIO_N_SAMPLES_CYCLE)

\* C21: a voice whose carrier envelope is stopped adds exactly 0 to the left and
\* right slot of a frame, and with all voices stopped a zeroed buffer is all
\* zero after synth_process.
C21_StoppedVoiceAddsZero ==
    last_op.op = "process" =>
        /\ \A j \in Voices :
               CarrierStopped(pre_voices[j])
                   => VoiceFrame(pre_voices[j]) = [left |-> 0, right |-> 0]
        /\ (\A j \in Voices : CarrierStopped(pre_voices[j]))
               => \A k \in DOMAIN LastProcessFrames :
                      LastProcessFrames[k] = [left |-> 0, right |-> 0]

\* C21 for the carrier sample alone: the sample handed to the panner is 0 for a
\* stopped voice
C21_StoppedSampleIsZero ==
    last_op.op = "process" =>
        \A j \in Voices :
            (CarrierStopped(pre_voices[j]) /\ ~IsNaN(pre_voices[j].osc1.index))
                => Sample1(pre_voices[j]) = 0

(***************************************************************************)
(* Claims about the choice of a voice                                      *)
(***************************************************************************)
\* the voices that were inactive when the last call began
InactiveBefore == {i \in Voices : ~pre_voices[i].active}

\* the last call was a note_on for a note that no voice held
NoteOnUnheld == last_op.op = "note_on" /\ Holders(pre_voices, last_op.note) = {}

\* C25: when no voice holds the note and some voice is inactive, note_on selects
\* the inactive voice with the highest index, never an active voice.
C25_LastInactiveSelected ==
    (NoteOnUnheld /\ InactiveBefore # {}) =>
        /\ last_op.voice \in InactiveBefore
        /\ \A i \in InactiveBefore : i <= last_op.voice

\* two voices were inactive and the one with the higher index was selected
C25_Witness ==
    /\ NoteOnUnheld
    /\ \E i, j \in InactiveBefore : i < j /\ last_op.voice = j

\* C26: when no voice holds the note and all voices are active, note_on steals
\* the voice with the least amplitude velocity * carrier envelope value, and of
\* several voices with that amplitude the one with the lowest index.
C26_QuietestStolen ==
    (NoteOnUnheld /\ InactiveBefore = {}) =>
        /\ last_op.voice \in Voices
        /\ \A i \in Voices :
               FLe(Amplitude(pre_voices[last_op.voice]), Amplitude(pre_voices[i]))
        /\ \A i \in Voices :
               i < last_op.voice
                   => FLt(Amplitude(pre_voices[last_op.voice]), Amplitude(pre_voices[i]))

\* two active voices had the same least amplitude
C26_TieWitness ==
    /\ NoteOnUnheld
    /\ InactiveBefore = {}
    /\ \E i \in Voices :
          /\ i > last_op.voice
          /\ Amplitude(pre_voices[i]) = Amplitude(pre_voices[last_op.voice])

\* the voice with the higher index was the quieter one and was stolen
C26_QuieterWitness ==
    /\ NoteOnUnheld
    /\ InactiveBefore = {}
    /\ \E i \in Voices :
          /\ i < last_op.voice
          /\ FLt(Amplitude(pre_voices[last_op.voice]), Amplitude(pre_voices[i]))

\* C27: right after synth_process every voice has active = (carrier envelope
\* status # STOPPED), and note_on and note_off leave the flag of every voice as
\* the last synth_process set it, whatever they do to the envelope status.
C27_ActiveFlagSetByProcessOnly ==
    /\ last_op.op = "process" =>
           \A i \in Voices :
               voices[i].active = (voices[i].env1.state.status # "STOPPED")
    /\ last_op.op \in {"note_on", "note_off"} =>
           \A i \in Voices : voices[i].active = pre_voices[i].active

\* a synth_process has just set the flag of a voice that note_on had started,
\* and left another voice, which is stopped, unflagged
C27_Witness ==
    /\ last_op.op = "process"
    /\ \E i \in Voices :
          /\ ~pre_voices[i].active
          /\ voices[i].active
          /\ voices[i].env1.state.status # "STOPPED"
    /\ \E j \in Voices : ~voices[j].active /\ voices[j].env1.state.status = "STOPPED"

\* a note_on has put the envelope of an unflagged voice into the attack
C27_StaleFlagWitness ==
    /\ last_op.op = "note_on"
    /\ ~voices[last_op.voice].active
    /\ voices[last_op.voice].env1.state.status = "ATTACK"

(***************************************************************************)
(* Claims about the stages of the envelope                                 *)
(***************************************************************************)
\* the envelope parameters as dsp_adsr_set_values left them at the start
ConfiguredEnvelope ==
    dsp_adsr_set_values(dsp_adsr_new, adsr_h.rate, adsr_h.values).envelope

\* C28: a tick changes the status only from ATTACK to DECAY (value >= attack
\* target, clamped to it), from DECAY to SUSTAIN (value <= decay target, clamped
\* to it) and from RELEASE to STOPPED (value <= 0, clamped to 0); a tick in
\* SUSTAIN or STOPPED changes neither status nor value; the tick returns the
\* value held before the update.
C28_TickTransitions ==
    adsr_h.last = "tick" =>
        LET e == adsr_env.envelope
            p == adsr_h.prev
        IN /\ adsr_h.returned = p.value
           /\ p.status = "ATTACK" =>
                 LET nv == FAdd(p.value, e.attack.increment)
                 IN adsr_env.state = IF FGe(nv, e.attack.value)
                                     THEN [status |-> "DECAY", value |-> e.attack.value]
                                     ELSE [status |-> "ATTACK", value |-> nv]
           /\ p.status = "DECAY" =>
                 LET nv == FAdd(p.value, e.decay.increment)
                 IN adsr_env.state = IF FLe(nv, e.decay.value)
                                     THEN [status |-> "SUSTAIN", value |-> e.decay.value]
                                     ELSE [status |-> "DECAY", value |-> nv]
           /\ p.status = "RELEASE" =>
                 LET nv == FAdd(p.value, e.release.increment)
                 IN adsr_env.state = IF FLe(nv, 0)
                                     THEN [status |-> "STOPPED", value |-> 0]
                                     ELSE [status |-> "RELEASE", value |-> nv]
           /\ p.status \in {"SUSTAIN", "STOPPED"} => adsr_env.state = p
           /\ adsr_env.envelope = ConfiguredEnvelope

\* a tick in the sustain stage at a level above 0, after the decay got there
C28_Witness ==
    /\ adsr_h.last = "tick"
    /\ adsr_h.fresh
    /\ adsr_h.prev.status = "SUSTAIN"
    /\ adsr_h.prev.value > 0
    /\ adsr_h.prev.value < adsr_env.envelope.attack.value
    /\ adsr_env.state = adsr_h.prev

\* C29: trigger_attack sets the status to ATTACK and trigger_release sets it to
\* RELEASE from every state, and both leave the value and the envelope
\* parameters as they were.
C29_TriggersKeepValue ==
    /\ adsr_h.last = "trigger_attack" =>
           /\ adsr_env.state = [status |-> "ATTACK", value |-> adsr_h.prev.value]
           /\ adsr_env.envelope = ConfiguredEnvelope
    /\ adsr_h.last = "trigger_release" =>
           /\ adsr_env.state = [status |-> "RELEASE", value |-> adsr_h.prev.value]
           /\ adsr_env.envelope = ConfiguredEnvelope

\* an attack triggered in the middle of a release, from a level above 0
C29_Witness ==
    /\ adsr_h.last = "trigger_attack"
    /\ adsr_h.prev.status = "RELEASE"
    /\ adsr_h.prev.value > 0
    /\ ~IsNaN(adsr_h.prev.value)
    /\ adsr_env.state.status = "ATTACK"

(***************************************************************************)
(* Claims about the envelope setters                                       *)
(***************************************************************************)
\* a setter has been called on the envelope
AfterSetter ==
    adsr_h.last \in {"set_attack", "set_decay", "set_sustain", "set_release", "set_values"}

\* C30: after any sequence of setter calls the decay target equals the current
\* sustain level and the three increments are (peak - 0) / attack_samples,
\* (sustain - peak) / decay_samples and (0 - sustain) / release_samples.
C30_IncrementsConsistent ==
    AfterSetter =>
        LET e == adsr_env.envelope
            rate == adsr_h.rate
        IN /\ e.decay.value = e.sustain
           /\ e.attack.increment = FDiv(e.attack.value - 0, rate * e.attack.duration)
           /\ e.decay.increment = FDiv(e.sustain - e.attack.value, rate * e.decay.duration)
           /\ e.release.increment = FDiv(0 - e.sustain, rate * e.release.duration)

\* C30, what the code keeps: the three increments follow from the stored
\* breakpoints, the decay increment from the stored decay target.
C30_IncrementsMatchBreakpoints ==
    AfterSetter =>
        LET e == adsr_env.envelope
            rate == adsr_h.rate
        IN /\ e.attack.increment =
                  FDiv(e.attack.value - e.release.value, rate * e.attack.duration)
           /\ e.decay.increment =
                  FDiv(e.decay.value - e.attack.value, rate * e.decay.duration)
           /\ e.release.increment =
                  FDiv(e.release.value - e.sustain, rate * e.release.duration)
           /\ e.release.value = 0

(***************************************************************************)
(* Claims about the slots of the sequencer                                 *)
(***************************************************************************)
\* C22: a sequencer_process call issues synth_note_on if and only if the
\* sequencer is running and the pause ran out in that call, and it then assigns
\* exactly one slot: a free slot exists at every pause expiry, also after calls
\* of sequencer_set_running and sequencer_set_bpm between the blocks.
C22_NoteOnAtEveryPauseExpiry ==
    sq.last = "process" =>
        /\ sq.note_on <=> (sq.was_running /\ sq.was_expired)
        /\ sq.note_on => sq.assigned = 1
        /\ ~sq.note_on => sq.assigned = 0

\* C22, what the code keeps: synth_note_on is issued if and only if the
\* sequencer is running, the pause ran out and a slot is free, and then exactly
\* one slot is assigned.
C22_NoteOnWhenSlotFree ==
    sq.last = "process" =>
        /\ sq.note_on <=> (sq.was_running /\ sq.was_due)
        /\ sq.note_on => sq.assigned = 1
        /\ ~sq.note_on => sq.assigned = 0

(***************************************************************************)
(* Claims about the callbacks of the control surface                       *)
(***************************************************************************)
\* the last event handled was an encoder turn in the parameter screen of a
\* command that has a value callback
ValueChangedByUi ==
    /\ ui.last.btn \in {"INCREASE", "DECREASE"}
    /\ ui.before.screen = "param"
    /\ Command(ui.before.cmd).value

\* C23: after each INCREASE or DECREASE event handled in the parameter screen of
\* a command with a value callback, that callback has been called.
C23_ValueCallbackCalled ==
    ValueChangedByUi => \E i \in DOMAIN ui.callbacks : ui.callbacks[i] = "value"

\* C23, what the code does: the encoder turn changes the parameter within its
\* limits and calls no callback.
C23_ValueChangedWithoutCallback ==
    ValueChangedByUi =>
        /\ ui.callbacks = <<>>
        /\ ui.values[ui.before.cmd]
               = ClampTo(ui.before.cmd,
                         ui.before.values[ui.before.cmd]
                             + (IF ui.last.btn = "INCREASE" THEN 1 ELSE 0 - 1)
                                   * Command(ui.before.cmd).step)

\* the command the last event handled has activated, or -1: the command of a
\* command-button event, or the selected entry at ENTER in the menu
Activated ==
    IF ui.last.btn = "COMMAND" THEN ui.last.cmd
    ELSE IF ui.last.btn = "ENTER" /\ ui.before.screen = "menu" THEN ui.before.selection
    ELSE 0 - 1

\* C24: an activated command is run exactly once, with its execute callback
\* called exactly once when it has one: no command-button event taken from the
\* queue is dropped.
C24_ActivatedCommandRuns ==
    Activated \in Commands =>
        /\ ui.ran = <<Activated>>
        /\ ui.callbacks = IF Command(Activated).execute THEN <<"execute">> ELSE <<>>

\* C24, what the code keeps: a command is run exactly once unless its button
\* event arrives in a parameter screen that a command button has opened.
C24_RunsUnlessScreenOpenedByButton ==
    (Activated \in Commands /\ ~(ui.before.screen = "param" /\ ui.before.caller = "task")) =>
        /\ ui.ran = <<Activated>>
        /\ ui.callbacks = IF Command(Activated).execute THEN <<"execute">> ELSE <<>>

\* C24, the button pressed in a parameter screen that an ENTER in the menu has
\* opened: the event goes up through the menu to ui_task and the command runs
C24_HandedUpWitness ==
    /\ ui.last.btn = "COMMAND"
    /\ ui.before.screen = "param"
    /\ ui.before.caller = "menu"
    /\ ui.ran = <<ui.last.cmd>>

(***************************************************************************)
(* Claims about what synth_note_on leaves alone                            *)
(***************************************************************************)
\* C31: synth_note_on changes only the selected voice; it keeps the phase index
\* of that voice's carrier, modulator and LFO (the LFO as a whole), the current
\* values and the parameters of its two envelopes, and every field of every
\* other voice.
C31_NoteOnFrame ==
    (last_op.op = "note_on" /\ last_op.voice \in Voices) =>
        LET v == last_op.voice
            new == voices[v]
            old == pre_voices[v]
        IN /\ \A i \in Voices \ {v} : voices[i] = pre_voices[i]
           /\ new.osc1.index = old.osc1.index
           /\ new.osc2.index = old.osc2.index
           /\ new.lfo1 = old.lfo1
           /\ new.env1.state.value = old.env1.state.value
           /\ new.env2.state.value = old.env2.state.value
           /\ new.env1.envelope = old.env1.envelope
           /\ new.env2.envelope = old.env2.envelope
           /\ new.active = old.active

\* a note_on on a voice whose carrier and modulator are in the middle of a
\* period and whose envelope is above 0, with the frequency changed
C31_Witness ==
    /\ last_op.op = "note_on"
    /\ last_op.voice \in Voices
    /\ pre_voices[last_op.voice].osc1.index # 0
    /\ pre_voices[last_op.voice].osc2.index # 0
    /\ pre_voices[last_op.voice].env1.state.value > 0
    /\ voices[last_op.voice].osc1.frequency # pre_voices[last_op.voice].osc1.frequency
    /\ voices[last_op.voice].osc1.index = pre_voices[last_op.voice].osc1.index

(***************************************************************************)
(* Claims about the note_off calls of the sequencer                        *)
(***************************************************************************)
\* C32: every note assigned to a slot gets exactly one synth_note_off: in the
\* first sequencer_process call in which samples_remaining crosses to <= 0,
\* also while the sequencer is stopped, and not again until the slot is
\* assigned again.
C32_OneNoteOffPerNote ==
    \A i \in Slots :
        /\ sq.offs_since[i] =
               IF i \in sq.taken /\ sq.seq.notes_playing[i].samples_remaining <= 0
               THEN 1 ELSE 0
        /\ (sq.last = "process" /\ i \in sq.note_offs) =>
               \/ sq.seq.notes_playing[i].samples_remaining <= 0
               \/ sq.offs_since[i] = 0

\* a note_off issued by a call made while the sequencer is stopped, and an
\* earlier call that has left a released slot alone
C32_Witness ==
    /\ sq.last = "process"
    /\ ~sq.was_running
    /\ sq.note_offs # {}
    /\ \E i \in Slots \ sq.note_offs : sq.offs_since[i] = 1

(***************************************************************************)
(* Claims about the number of sounding slots                               *)
(***************************************************************************)
\* sequencer.c:132, 154: the slots that hold a sounding note
Sounding == {i \in Slots : sq.seq.notes_playing[i].samples_remaining > 0}

VelocitySteps == {k * (VelocityScale \div 255) : k \in 0 .. 255}

\* C34 as stated: every velocity is one of 256 values in [0, 1): never negative
\* and never 1.0.
C34_VelocityBelowOne ==
    sq.last = "note_on" =>
        /\ sq.velocity \in VelocitySteps
        /\ 0 <= sq.velocity
        /\ sq.velocity < VelocityScale

\* C34: every velocity is one of the 256 values k / 255 in the closed range
\* [0, 1]: never negative, and exactly 1.0 when the draw's residue is 255.
C34_VelocityUpToOne ==
    sq.last = "note_on" =>
        /\ sq.velocity \in VelocitySteps
        /\ 0 <= sq.velocity
        /\ sq.velocity <= VelocityScale
        /\ (sq.velocity = VelocityScale) <=> (sq.rand % 256 = 255)

\* the draw with residue 255 has given the velocity 1.0
C34_Witness ==
    /\ sq.last = "note_on"
    /\ sq.rand % 256 = 255
    /\ sq.rand > 255
    /\ sq.velocity = VelocityScale

(***************************************************************************)
(* Claims about the descriptor the worker reads                            *)
(***************************************************************************)
\* C35: the pointer and the size the worker uses for a render cycle stem from
\* one interrupt, under every interleaving of the handler's two stores with the
\* worker's read of the shared descriptor.
C35_PairFromOneInterrupt ==
    dsp_pc = "render" => tx_irq.size = tx_irq.data

\* C35, what the code keeps: a worker that is waiting when every interrupt
\* fires reads the pair of one interrupt
C35_PairWholeWithoutOverrun ==
    (dsp_pc = "render" /\ ~overrun) => tx_irq.size = tx_irq.data

(***************************************************************************)
(* Claims about the release of a note                                      *)
(***************************************************************************)
\* the voice holding the note has stopped: its envelope is stopped and its flag
\* is cleared, which no later synth_process changes
ReleasedVoiceInactive ==
    /\ e2e.pc = "released"
    /\ ~voices[e2e.voice].active
    /\ ~VoiceActive(voices[e2e.voice])

\* C36: after synth_note_on(n) and a later synth_note_off(n), with any number
\* of rendered blocks (zero included) between them, continued rendering
\* eventually makes the voice holding n inactive.
C36_NoteOffEffective ==
    (e2e.pc = "released") ~> ReleasedVoiceInactive

\* C36 for a note_off that comes after at least one rendered block
C36_NoteOffAfterBlockEffective ==
    (e2e.pc = "released" /\ e2e.blocks >= 1) ~> ReleasedVoiceInactive

(***************************************************************************)
(* Claims about the end of the release stage                               *)
(***************************************************************************)
\* the envelope's three durations are positive
PositiveDurations ==
    /\ adsr_h.values.attack > 0
    /\ adsr_h.values.decay > 0
    /\ adsr_h.values.release > 0

\* C37: after trigger_release in any stage with any current value in [0, peak],
\* for every parameter set with positive durations and a sustain level in
\* [0, peak], sustain = 0 included, repeated ticks reach Stopped.
C37_ReleaseTerminates ==
    (adsr_h.released /\ PositiveDurations) ~> (adsr_env.state.status = "STOPPED")

\* C37 for the parameter sets with a sustain level above 0
C37_ReleaseTerminatesAboveZero ==
    (adsr_h.released /\ PositiveDurations /\ adsr_h.values.sustain > 0)
        ~> (adsr_env.state.status = "STOPPED")

(***************************************************************************)
(* Claims about the range of the envelope value                            *)
(***************************************************************************)
\* C40: with fixed parameters (sustain level in [0, peak], positive durations),
\* after any interleaving of trigger_attack, trigger_release and tick from
\* Stopped with value 0, the value is in [0, attack target] in every reachable
\* state, and a stopped envelope has the value 0.
C40_EnvelopeInRange ==
    (adsr_h.values.attack > 0 /\ adsr_h.values.decay > 0 /\ adsr_h.values.release > 0)
        => /\ IsFinite(adsr_env.state.value)
           /\ 0 <= adsr_env.state.value
           /\ adsr_env.state.value <= adsr_env.envelope.attack.value
           /\ adsr_env.state.status = "STOPPED" => adsr_env.state.value = 0

\* C40 witness: a tick of the release stage that would take the value below 0
\* stops the envelope at the value 0
C40_Witness ==
    /\ adsr_h.values.attack > 0 /\ adsr_h.values.decay > 0 /\ adsr_h.values.release > 0
    /\ adsr_h.last = "tick"
    /\ adsr_h.prev.status = "RELEASE"
    /\ adsr_h.prev.value > 0
    /\ FLt(FAdd(adsr_h.prev.value, adsr_env.envelope.release.increment), 0)
    /\ adsr_env.state = [status |-> "STOPPED", value |-> 0]

(***************************************************************************)
(* Claims about the worker's sub-blocks                                    *)
(***************************************************************************)
\* every slot has run out
SlotsDone == \A i \in Slots : sq.seq.notes_playing[i].samples_remaining <= 0

\* every voice is released or stopped
VoicesReleased == \A v \in Voices : voices[v].env1.state.status \in {"RELEASE", "STOPPED"}

\* every slot has run out, and every voice is stopped with its flag cleared
AllSilent ==
    /\ SlotsDone
    /\ \A v \in Voices : ~voices[v].active /\ ~VoiceActive(voices[v])

\* C38: once the sequencer is stopped and stays so, while the worker keeps
\* rendering sub-blocks, every sounding slot reaches samples_remaining <= 0,
\* every voice the sequencer started is released, and in the end all voices are
\* inactive and remain so.
C38_StopLeadsToSilence ==
    /\ sq.stopped ~> SlotsDone
    /\ sq.stopped ~> VoicesReleased
    /\ sq.stopped ~> AllSilent
    /\ [][(sq.stopped /\ AllSilent) => AllSilent']_vars

\* C38 witness: the sequencer was stopped with slots sounding and voices active,
\* one of the slots with a note whose voice a later note has taken over; a
\* note_off after the stop released a voice, and all is silent
C38_Witness ==
    /\ sq.stopped
    /\ sq.sounding_at_stop # {}
    /\ sq.active_at_stop # {}
    /\ sq.stolen_at_stop # {}
    /\ sq.released # {}
    /\ AllSilent

\* C39, first part: in every sub-block the samples reported to sequencer_process
\* are as many as the stereo frames synth_process renders
C39_ReportedEqualsRendered ==
    sq.last = "block" => sq.reported = sq.rendered

\* C39, second part: a slot with a duration of d samples gets its note_off after
\* d rendered frames, to within one sub-block
C39_ReleasedAfterDuration ==
    \A i \in Slots :
        sq.off_frames[i] # 0 - 1
            => Abs(sq.off_frames[i] - sq.duration[i]) <= CONFIG_AUDIO_N_SAMPLES_CYCLE

\* C39: sequencer time equals rendered audio time, in every sub-block and so
\* over the duration of every slot.
C39_SequencerTimeIsAudioTime ==
    /\ C39_ReportedEqualsRendered
    /\ C39_ReleasedAfterDuration

\* C39, what the code does: a sub-block of n interleaved samples counts as n
\* samples of sequencer time and is n / 2 frames, so a slot of d samples gets
\* its note_off after d / 2 rendered frames, to within one sub-block
C39_ReleasedAfterHalfDuration ==
    \A i \in Slots :
        sq.off_frames[i] # 0 - 1
            => Abs(2 * sq.off_frames[i] - sq.duration[i]) <= CONFIG_AUDIO_N_SAMPLES_CYCLE

====
